---------------------------- MODULE Spec2Model ----------------------------
(***************************************************************************)
(* Community detection layer of project_bioensis.                          *)
(*                                                                         *)
(* The module models the edge-list loader, the networkx graph object it    *)
(* builds (insertion-ordered node and adjacency dictionaries), the full    *)
(* Girvan-Newman loop with its modularity trace and global-peak selection, *)
(* and the conductance report.                                             *)
(*                                                                         *)
(* Numbers.  Scores are fixed-point integers in units of 1/One.  A         *)
(* modularity value is an exact fraction [num, den] with den > 0;          *)
(* edge betweenness is scaled by a common multiple of the shortest-path    *)
(* counts, so that comparisons are exact.  The normalisation factor that   *)
(* networkx applies to every betweenness value alike is left out: it does  *)
(* not change which edge is the first maximum.                             *)
(***************************************************************************)
EXTENDS Integers, Sequences, FiniteSets, TLC

\* ------------------------------------------------------------------------
\* Bounds of the model
\* ------------------------------------------------------------------------
NumNodes == 4
MaxWeight == 2
MaxRecords == 4
MaxLines == 3
MaxLinks == 2
MaxModules == 2
MaxClusters == 2
MaxGenes == 5

\* fixed-point unit of a score: the 1.0 of `dist=1.0 - s`
One == 10

Node == 1..NumNodes
Scores == 1..MaxWeight

Pairs == {p \in Node \X Node : p[1] < p[2]}

\* ------------------------------------------------------------------------
\* Generic helpers
\* ------------------------------------------------------------------------
Range(s) == {s[i] : i \in 1..Len(s)}
Range1(f) == {f[x] : x \in DOMAIN f}

\* F(v), with v evaluated once and F applied to its value
Once(v, F(_)) == CHOOSE r \in {F(x) : x \in {v}} : TRUE

RECURSIVE SumSet(_, _)
SumSet(S, f) ==
    IF S = {} THEN 0
    ELSE Once(CHOOSE y \in S : TRUE, LAMBDA x : f[x] + SumSet(S \ {x}, f))

\* f[lo] + ... + f[hi]
RECURSIVE SumFn(_, _, _)
SumFn(f, lo, hi) == IF lo > hi THEN 0 ELSE f[lo] + SumFn(f, lo + 1, hi)

SumSeq(s) == SumFn(s, 1, Len(s))

RECURSIVE Gcd(_, _)
Gcd(a, b) == IF b = 0 THEN a ELSE Gcd(b, a % b)

Lcm(a, b) == (a * b) \div Gcd(a, b)

RECURSIVE LcmSet(_)
LcmSet(S) ==
    IF S = {} THEN 1
    ELSE Once(CHOOSE y \in S : TRUE, LAMBDA x : Lcm(x, LcmSet(S \ {x})))

\* the function f, tabulated once
RECURSIVE TabulateOn(_, _)
TabulateOn(f, S) ==
    IF S = {} THEN [x \in {} |-> 0]
    ELSE Once(CHOOSE y \in S : TRUE, LAMBDA x : (x :> f[x]) @@ TabulateOn(f, S \ {x}))

Tabulate(f) == TabulateOn(f, DOMAIN f)

RemoveFromSeq(s, x) == SelectSeq(s, LAMBDA y : y # x)

\* exact fractions with positive denominators
RatEq(a, b) == a.num * b.den = b.num * a.den
RatLess(a, b) == a.num * b.den < b.num * a.den

\* ------------------------------------------------------------------------
\* networkx.Graph: insertion-ordered nodes, insertion-ordered adjacency,
\* one attribute dictionary per undirected edge
\* ------------------------------------------------------------------------
EmptyGraph ==
    [nodes |-> <<>>,
     adj   |-> [n \in Node |-> <<>>],
     attr  |-> [e \in {} |-> 0]]

\* the empty graph over the node identifiers 1..n
EmptyGraphOn(n) ==
    [nodes |-> <<>>,
     adj   |-> [x \in 1..n |-> <<>>],
     attr  |-> [e \in {} |-> 0]]

HasNode(g, n) == n \in Range(g.nodes)

add_node(g, n) == IF HasNode(g, n) THEN g ELSE [g EXCEPT !.nodes = Append(@, n)]

AdjPut(a, v) == IF v \in Range(a) THEN a ELSE Append(a, v)

\* G.add_edge(a, b, sim=s, weight=s, dist=1.0 - s)
add_edge(g, u, v, s) ==
    LET g1 == add_node(add_node(g, u), v)
        d  == [sim |-> s, weight |-> s, dist |-> One - s]
        e  == {u, v}
    IN  [nodes |-> g1.nodes,
         adj   |-> [n \in DOMAIN g1.adj |->
                      IF n = u THEN AdjPut(g1.adj[n], v)
                      ELSE IF n = v THEN AdjPut(g1.adj[n], u)
                      ELSE g1.adj[n]],
         attr  |-> [x \in (DOMAIN g1.attr) \cup {e} |->
                      IF x = e THEN d ELSE g1.attr[x]]]

\* removal that also drops an endpoint left without neighbours
remove_edge_prune(g, u, v) ==
    LET a == [n \in DOMAIN g.adj |->
                IF n = u THEN RemoveFromSeq(g.adj[n], v)
                ELSE IF n = v THEN RemoveFromSeq(g.adj[n], u)
                ELSE g.adj[n]]
    IN  [nodes |-> SelectSeq(g.nodes, LAMBDA n : a[n] # <<>>),
         adj   |-> a,
         attr  |-> [x \in (DOMAIN g.attr) \ {{u, v}} |-> g.attr[x]]]

\* H.remove_edge(u, v)
remove_edge(g, u, v) ==
    [nodes |-> g.nodes,
     adj   |-> [n \in DOMAIN g.adj |->
                  IF n = u THEN RemoveFromSeq(g.adj[n], v)
                  ELSE IF n = v THEN RemoveFromSeq(g.adj[n], u)
                  ELSE g.adj[n]],
     attr  |-> [x \in (DOMAIN g.attr) \ {{u, v}} |-> g.attr[x]]]

NodeSet(g) == Range(g.nodes)
EdgeSet(g) == DOMAIN g.attr
Neighbors(g, n) == Range(g.adj[n])

\* G.degree(): number of adjacency entries of each node, a self-loop
\* counting twice
Degree(g, n) == Len(g.adj[n]) + (IF n \in Range(g.adj[n]) THEN 1 ELSE 0)

\* G.number_of_edges(): half the degree sum
number_of_edges(g) ==
    SumSeq([i \in 1..Len(g.nodes) |-> Degree(g, g.nodes[i])]) \div 2

\* G.edges(): nodes in node order, neighbours in adjacency order, an edge
\* is reported from its endpoint that comes first in node order
RECURSIVE EdgesFrom(_, _, _)
EdgesFrom(g, i, seen) ==
    IF i > Len(g.nodes) THEN <<>>
    ELSE LET n    == g.nodes[i]
             nbrs == SelectSeq(g.adj[n], LAMBDA v : v \notin seen)
         IN  [k \in 1..Len(nbrs) |-> <<n, nbrs[k]>>]
             \o EdgesFrom(g, i + 1, seen \cup {n})

Edges(g) == EdgesFrom(g, 1, {})

\* ------------------------------------------------------------------------
\* Loader
\* ------------------------------------------------------------------------
RECURSIVE LoadFrom(_, _, _)
LoadFrom(g, recs, i) ==
    IF i > Len(recs) THEN g
    ELSE LoadFrom(add_edge(g, recs[i][1], recs[i][2], recs[i][3]), recs, i + 1)

build_graph(recs) == LoadFrom(EmptyGraph, recs, 1)

\* Edge-list files of the model: at most MaxRecords data rows gen1,gen2,score,
\* one row per gene pair, rows in lexicographic order of the pair; every row
\* carries the lowest score, except at most one row, which carries any score
PairLeq(p, q) == p[1] < q[1] \/ (p[1] = q[1] /\ p[2] <= q[2])

RECURSIVE SortedPairs(_)
SortedPairs(E) ==
    IF E = {} THEN <<>>
    ELSE LET p == CHOOSE x \in E : \A y \in E : PairLeq(x, y)
         IN  <<p>> \o SortedPairs(E \ {p})

Rows(E, h, s) ==
    LET ps == SortedPairs(E)
    IN  [i \in 1..Len(ps) |-> <<ps[i][1], ps[i][2], IF ps[i] = h THEN s ELSE 1>>]

EdgeLists ==
    {Rows(E, h, s) : E \in {X \in SUBSET Pairs : Cardinality(X) <= MaxRecords},
                     h \in Pairs, s \in Scores}

\* ------------------------------------------------------------------------
\* Connected components: one breadth-first search per node not yet seen,
\* in node order
\* ------------------------------------------------------------------------
RECURSIVE Reach(_, _)
Reach(g, seen) ==
    Once(seen \cup UNION {Neighbors(g, n) : n \in seen},
         LAMBDA next : IF next = seen THEN seen ELSE Reach(g, next))

RECURSIVE ComponentsFrom(_, _, _)
ComponentsFrom(g, i, seen) ==
    IF i > Len(g.nodes) THEN <<>>
    ELSE IF g.nodes[i] \in seen THEN ComponentsFrom(g, i + 1, seen)
    ELSE Once(Reach(g, {g.nodes[i]}),
              LAMBDA c : <<c>> \o ComponentsFrom(g, i + 1, seen \cup c))

connected_components(g) == ComponentsFrom(g, 1, {})

\* ------------------------------------------------------------------------
\* Modularity of a list of communities against graph g, edge e weighing
\* wt[e]:  Q = sum_c ( L_c / m - (d_c / 2m)^2 )  with 2m the degree sum S,
\* returned as the fraction  sum_c (2 L_c S - d_c^2) / S^2
\* ------------------------------------------------------------------------
WDegree(g, wt, n) ==
    SumSeq([k \in 1..Len(g.adj[n]) |-> wt[{n, g.adj[n][k]}]])
        + (IF n \in Range(g.adj[n]) THEN wt[{n}] ELSE 0)

ModularityOf(g, communities, wt, deg, S) ==
    LET L(c) == SumSet({e \in EdgeSet(g) : e \subseteq c}, wt)
        contrib == [k \in 1..Len(communities) |->
                      2 * L(communities[k]) * S
                      - Once(SumSet(communities[k], deg), LAMBDA d : d * d)]
    IN  [num |-> SumSeq(contrib), den |-> S * S]

ModularityW(g, communities, wt) ==
    Once(Tabulate([n \in NodeSet(g) |-> WDegree(g, wt, n)]),
         LAMBDA deg : Once(SumSet(NodeSet(g), deg),
                           LAMBDA S : ModularityOf(g, communities, wt, deg, S)))

\* every edge counts 1
UnitWeights(g) == [e \in EdgeSet(g) |-> 1]

\* the edge attribute "weight", which is what modularity reads by default
AttrWeights(g) == [e \in EdgeSet(g) |-> g.attr[e].weight]

\* modularity called with weight=None
modularity_unweighted(g, communities) == ModularityW(g, communities, UnitWeights(g))

modularity(g, communities) == ModularityW(g, communities, AttrWeights(g))

\* ------------------------------------------------------------------------
\* Edge betweenness on the unweighted topology of g
\* ------------------------------------------------------------------------
RECURSIVE Bfs(_, _, _, _)
Bfs(g, frontier, seen, d) ==
    IF frontier = {} THEN [n \in {} |-> 0]
    ELSE Once((UNION {Neighbors(g, n) : n \in frontier}) \ seen,
              LAMBDA next : [n \in frontier |-> d] @@ Bfs(g, next, seen \cup next, d + 1))

\* hop distance from s to every node reachable from s
Dist(g, s) == Bfs(g, {s}, {s}, 0)

\* number of shortest paths from s to every node reachable from s, level
\* by level: a node of the next level gets the sum over its neighbours in
\* the current level
RECURSIVE SigmaBfs(_, _, _, _)
SigmaBfs(g, frontier, seen, sg) ==
    IF frontier = {} THEN [n \in {} |-> 0]
    ELSE Once((UNION {Neighbors(g, n) : n \in frontier}) \ seen,
              LAMBDA next :
                Once(Tabulate([t \in next |-> SumSet(Neighbors(g, t) \cap frontier, sg)]),
                     LAMBDA sgNext : sg @@ SigmaBfs(g, next, seen \cup next, sgNext)))

Sigma(g, s) == SigmaBfs(g, {s}, {s}, s :> 1)

\* sum over the pairs of nodes {s, t} of the fraction of shortest s-t paths
\* that use the edge, times a common multiple of the path counts
BetweennessOf(g, D, Sg, M) ==
    LET through(s, t, u, v) ==
            IF /\ u \in DOMAIN D[s]
               /\ v \in DOMAIN D[t]
               /\ D[s][u] + 1 + D[t][v] = D[s][t]
            THEN Sg[s][u] * Sg[t][v]
            ELSE 0
        share(u, v) ==
            [s \in DOMAIN g.adj |->
               SumFn([t \in DOMAIN g.adj |->
                        IF s < t /\ t \in DOMAIN D[s]
                        THEN (through(s, t, u, v) + through(s, t, v, u))
                             * (M \div Sg[s][t])
                        ELSE 0], 1, Len(g.adj))]
    IN  Tabulate([e \in EdgeSet(g) |->
                    Once(CHOOSE x \in e : TRUE,
                         LAMBDA u : SumFn(share(u, CHOOSE x \in e : x # u), 1, Len(g.adj)))])

edge_betweenness_centrality(g) ==
    Once(Tabulate([s \in DOMAIN g.adj |-> Dist(g, s)]),
         LAMBDA D :
           Once(Tabulate([s \in DOMAIN g.adj |-> Sigma(g, s)]),
                LAMBDA Sg :
                  Once(LcmSet(UNION {Range1(Sg[s]) : s \in DOMAIN g.adj}),
                       LAMBDA M : BetweennessOf(g, D, Sg, M))))

\* a scan in which a later key also replaces the current one on a tie
RECURSIVE MaxKeyFrom_last(_, _, _, _)
MaxKeyFrom_last(keys, val, i, best_k) ==
    IF i > Len(keys) THEN keys[best_k]
    ELSE IF val[i] >= val[best_k]
         THEN MaxKeyFrom_last(keys, val, i + 1, i)
         ELSE MaxKeyFrom_last(keys, val, i + 1, best_k)

\* max(betw, key=betw.get): the keys come in G.edges() order and a later
\* key replaces the current one only when its value is strictly greater
RECURSIVE MaxKeyFrom(_, _, _, _)
MaxKeyFrom(keys, val, i, best_k) ==
    IF i > Len(keys) THEN keys[best_k]
    ELSE IF val[i] > val[best_k]
         THEN MaxKeyFrom(keys, val, i + 1, i)
         ELSE MaxKeyFrom(keys, val, i + 1, best_k)

MaxBetweennessEdge(g) ==
    Once(Edges(g),
         LAMBDA keys :
           Once(edge_betweenness_centrality(g),
                LAMBDA betw :
                  MaxKeyFrom(keys, [k \in 1..Len(keys) |-> betw[{keys[k][1], keys[k][2]}]], 2, 1)))

\* a scan with the comparison turned round: the first minimum
RECURSIVE BestFrom_min(_, _, _)
BestFrom_min(trace, i, b) ==
    IF i > Len(trace) THEN b
    ELSE IF RatLess(trace[i], trace[b])
         THEN BestFrom_min(trace, i + 1, i)
         ELSE BestFrom_min(trace, i + 1, b)

\* max(range(len(trace)), key=lambda i: trace[i]), 1-based: first maximum
RECURSIVE BestFrom(_, _, _)
BestFrom(trace, i, b) ==
    IF i > Len(trace) THEN b
    ELSE IF RatLess(trace[b], trace[i])
         THEN BestFrom(trace, i + 1, i)
         ELSE BestFrom(trace, i + 1, b)

\* stop at the first entry that the next one does not exceed
RECURSIVE LocalPeakFrom(_, _)
LocalPeakFrom(trace, i) ==
    IF i >= Len(trace) THEN i
    ELSE IF RatLess(trace[i], trace[i + 1])
         THEN LocalPeakFrom(trace, i + 1)
         ELSE i

best_index_local(trace) == LocalPeakFrom(trace, 1)

best_index(trace) == BestFrom(trace, 2, 1)

\* ------------------------------------------------------------------------
\* Conductance
\* ------------------------------------------------------------------------
\* a volume that counts the nodes of the set, not their degrees
Volume_size(g, nbunch) == Cardinality(nbunch \cap NodeSet(g))

\* sum(dict(G.degree(nbunch)).values()): nodes outside the graph are skipped
Volume(g, nbunch) ==
    Once(nbunch \cap NodeSet(g),
         LAMBDA ns : SumSet(ns, [n \in ns |-> Degree(g, n)]))

\* sum(1 for u, v in G.edges() if (u in C) != (v in C))
CutEdges(g, C) ==
    Cardinality({e \in EdgeSet(g) : \E u \in e : \E v \in e : u \in C /\ v \notin C})

Min2(a, b) == IF a <= b THEN a ELSE b

\* conductance(G, community) as the fraction cut_edges / min(volC, volN);
\* 0.0 when the smaller volume is 0
conductance(g, community) ==
    LET C    == community
        notC == NodeSet(g) \ C
        volC == Volume(g, C)
        volN == Volume(g, notC)
    IN  IF Min2(volC, volN) = 0
        THEN [num |-> 0, den |-> 1]
        ELSE [num |-> CutEdges(g, C), den |-> Min2(volC, volN)]

\* sum(values) / len(values) as an exact fraction; len(values) > 0
MeanOf(values) ==
    LET L == LcmSet({values[i].den : i \in 1..Len(values)})
    IN  [num |-> SumSeq([i \in 1..Len(values) |-> values[i].num * (L \div values[i].den)]),
         den |-> L * Len(values)]

\* min(values), max(values); len(values) > 0
MinOf(values) ==
    values[CHOOSE i \in 1..Len(values) :
             \A j \in 1..Len(values) : ~RatLess(values[j], values[i])]

MaxOf(values) ==
    values[CHOOSE i \in 1..Len(values) :
             \A j \in 1..Len(values) : ~RatLess(values[i], values[j])]

\* ------------------------------------------------------------------------
\* Topology metrics (analizar_topologia_red.py)
\* ------------------------------------------------------------------------
\* None, and a value that is not None
None == <<>>
Some(x) == <<x>>

\* round(num / den, digits) in units of 1/scale, scale = 10^digits; no value
\* of the model lies half-way between two multiples of the unit
Round(num, den, scale) == (2 * num * scale + den) \div (2 * den)

Thousand == 1000
TenThousand == 10000
Hundred == 100

\* nx.from_pandas_edgelist(df, "gen1", "gen2", edge_attr="score"): the rows
\* in order, one attribute "score" per edge
from_pandas_edgelist(rows) ==
    Once(build_graph(rows),
         LAMBDA g : [g EXCEPT !.attr = [e \in DOMAIN g.attr |-> [score |-> g.attr[e].sim]]])

\* the rows of a network file: pairs of distinct genes in lexicographic
\* order, or rows that pair a gene with itself
SelfRows(S) ==
    LET ps == SortedPairs({<<n, n>> : n \in S})
    IN  [i \in 1..Len(ps) |-> <<ps[i][1], ps[i][2], 1>>]

TopoEdgeLists ==
    {Rows(E, <<1, 2>>, 1) : E \in {X \in SUBSET Pairs : Cardinality(X) <= MaxRecords}}
        \cup {SelfRows(S) : S \in {X \in SUBSET Node : X # {} /\ Cardinality(X) <= 2}}

\* nx.density(G)
density(g) ==
    LET n == Len(g.nodes)
        m == number_of_edges(g)
    IN  IF m = 0 \/ n <= 1 THEN [num |-> 0, den |-> 1]
        ELSE [num |-> 2 * m, den |-> n * (n - 1)]

\* nx.clustering(G)[v]: self-loops are left out; triangles are counted
\* twice, once from each of the two other corners
clustering(g, v) ==
    LET vs == Neighbors(g, v) \ {v}
        d  == Cardinality(vs)
        t  == SumSet(vs, [w \in vs |-> Cardinality(vs \cap (Neighbors(g, w) \ {w}))])
    IN  IF t = 0 THEN [num |-> 0, den |-> 1] ELSE [num |-> t, den |-> d * (d - 1)]

\* sum of fractions over a set, as one fraction
SumRat(S, f) ==
    Once(LcmSet({f[x].den : x \in S}),
         LAMBDA L : [num |-> SumSet(S, [x \in S |-> f[x].num * (L \div f[x].den)]),
                     den |-> L])

\* nx.average_clustering(G)
average_clustering(g) ==
    LET c == SumRat(NodeSet(g), [v \in NodeSet(g) |-> clustering(g, v)])
    IN  [num |-> c.num, den |-> c.den * Len(g.nodes)]

\* G.subgraph(nodes).copy()
subgraph(g, ns) ==
    [nodes |-> SelectSeq(g.nodes, LAMBDA n : n \in ns),
     adj   |-> [n \in DOMAIN g.adj |-> IF n \in ns
                                THEN SelectSeq(g.adj[n], LAMBDA v : v \in ns)
                                ELSE <<>>],
     attr  |-> [e \in {x \in DOMAIN g.attr : x \subseteq ns} |-> g.attr[e]]]

\* max(componentes, key=len): the first component of maximum size
RECURSIVE LargestFrom(_, _, _)
LargestFrom(cs, i, b) ==
    IF i > Len(cs) THEN b
    ELSE IF Cardinality(cs[i]) > Cardinality(cs[b])
         THEN LargestFrom(cs, i + 1, i)
         ELSE LargestFrom(cs, i + 1, b)

\* maximum of a non-empty set of numbers
MaxOfSet(S) == CHOOSE x \in S : \A y \in S : y <= x

\* nx.diameter(GC), GC connected
diameter(g) ==
    MaxOfSet(UNION {Range1(Dist(g, s)) : s \in NodeSet(g)})

\* nx.average_shortest_path_length(GC), GC connected with n > 1 nodes:
\* the distances of all ordered pairs over n (n - 1)
average_shortest_path_length(g) ==
    LET n == Len(g.nodes)
        total == SumSet(NodeSet(g),
                        [s \in NodeSet(g) |->
                           Once(Dist(g, s), LAMBDA d : SumSet(DOMAIN d, d))])
    IN  [num |-> total, den |-> n * (n - 1)]

\* all partitions of a set
RECURSIVE PartitionsOf(_)
PartitionsOf(S) ==
    IF S = {} THEN {{}}
    ELSE LET x == CHOOSE y \in S : TRUE
         IN  UNION {{{B \cup {x}} \cup P : P \in PartitionsOf(S \ (B \cup {x}))} :
                      B \in SUBSET (S \ {x})}

\* a set of disjoint node sets as a list, ordered by smallest member
RECURSIVE SeqByMin(_)
SeqByMin(P) ==
    IF P = {} THEN <<>>
    ELSE LET b == CHOOSE x \in P : \A y \in P : MaxOfSet({-n : n \in x}) >= MaxOfSet({-n : n \in y})
         IN  <<b>> \o SeqByMin(P \ {b})

ConnectedIn(g, B) == \E x \in B : Reach(subgraph(g, B), {x}) = B

\* louvain_communities(G, seed=42): the seeded search is not reproduced; it
\* returns some partition of the nodes into connected communities
LouvainOutcomes(g) ==
    {SeqByMin(P) : P \in {Q \in PartitionsOf(NodeSet(g)) : \A B \in Q : ConnectedIn(g, B)}}

\* ------------------------------------------------------------------------
\* State
\* ------------------------------------------------------------------------
VARIABLES
    heap,              \* graph objects by identity
    H,                 \* girvan_newman_full: identity of its working graph
    pc,                \* position in the program
    modularity_trace,  \* girvan_newman_full: list of modularity values
    partitions_trace,  \* girvan_newman_full: list of community lists
    best,              \* girvan_newman_full: best_index (1-based), 0 before it is set
    result,            \* value returned, or the exception raised
    loaded,            \* the graph as the loader returned it
    removed,           \* edges removed so far, in order
    cr_communities,    \* conductance_report: the list of communities it is given
    cr_values,         \* conductance_report: the list `values` as built so far
    loader,            \* the edge-list loaders: file, position, variant
    topo,              \* _calcular_metricas_globales: variant, locals, calls made
    clust,             \* ejecutar_clustering / main: branches run, records written
    pipe,              \* pipeline: configurations, position, stages run
    infomap,           \* infomap_partition: id maps, solver input and output
    ora                \* enrichment, summary and comparison: files, position, outputs

\* state of the components that a specification does not run
others == <<loader, topo, clust, pipe, infomap, ora>>

vars == <<heap, H, pc, modularity_trace, partitions_trace, best, result, loaded, removed,
          cr_communities, cr_values, others>>

\* a component that is not running
Idle == [on |-> FALSE]

OthersIdle ==
    /\ loader = Idle
    /\ topo = Idle
    /\ clust = Idle
    /\ pipe = Idle
    /\ infomap = Idle
    /\ ora = Idle

\* identity of the caller's graph G and of a copy of it
GObj == "G"
CopyObj == "copy"
NoObj == "none"
NoResult == [kind |-> "none"]

G == heap[GObj]

\* an assignment H = G where the copy should be: no new object
deepcopy_alias(hp, ref) == [heap |-> hp, ref |-> ref]

\* copy.deepcopy(G): a new object with the same content
deepcopy(hp, ref) == [heap |-> (CopyObj :> hp[ref]) @@ hp, ref |-> CopyObj]

\* a loop that stops one edge early
LoopCond_early(g) == number_of_edges(g) > 1

\* while H.number_of_edges() > 0
LoopCond(g) == number_of_edges(g) > 0

InitGN ==
    \E recs \in EdgeLists :
        /\ heap = (GObj :> build_graph(recs))
        /\ loaded = build_graph(recs)
        /\ H = NoObj
        /\ pc = "gn_start"
        /\ modularity_trace = <<>>
        /\ partitions_trace = <<>>
        /\ best = 0
        /\ result = NoResult
        /\ removed = <<>>
        /\ cr_communities = <<>>
        /\ cr_values = <<>>
        /\ OthersIdle

\* H = copy.deepcopy(G); the two traces start empty
GNCopy ==
    /\ pc = "gn_start"
    /\ \E c \in {deepcopy(heap, GObj)} :
           /\ heap' = c.heap
           /\ H' = c.ref
    /\ pc' = "gn_loop"
    /\ UNCHANGED <<modularity_trace, partitions_trace, best, result, loaded, removed, cr_communities, cr_values, others>>

\* an iteration that removes the edge first and records afterwards
GNStep_after ==
    /\ pc = "gn_loop"
    /\ LoopCond(heap[H])
    /\ \E edge \in {MaxBetweennessEdge(heap[H])} :
           /\ heap' = [heap EXCEPT ![H] = remove_edge(@, edge[1], edge[2])]
           /\ removed' = Append(removed, edge)
    /\ \E communities \in {connected_components(heap'[H])} :
           /\ partitions_trace' = Append(partitions_trace, communities)
           /\ modularity_trace' = Append(modularity_trace, modularity(heap'[GObj], communities))
    /\ UNCHANGED <<H, pc, best, result, loaded, cr_communities, cr_values, others>>

\* one iteration of the while loop
GNStep ==
    /\ pc = "gn_loop"
    /\ LoopCond(heap[H])
    /\ \E communities \in {connected_components(heap[H])} :
           /\ partitions_trace' = Append(partitions_trace, communities)
           /\ modularity_trace' = Append(modularity_trace, modularity(G, communities))
    /\ \E edge \in {MaxBetweennessEdge(heap[H])} :
           /\ heap' = [heap EXCEPT ![H] = remove_edge(@, edge[1], edge[2])]
           /\ removed' = Append(removed, edge)
    /\ UNCHANGED <<H, pc, best, result, loaded, cr_communities, cr_values, others>>

\* after the loop: best_index over the trace; max() of an empty range
\* raises ValueError
GNSelect ==
    /\ pc = "gn_loop"
    /\ ~LoopCond(heap[H])
    /\ IF modularity_trace = <<>>
       THEN /\ pc' = "gn_raised"
            /\ best' = best
            /\ result' = [kind |-> "ValueError"]
       ELSE /\ pc' = "gn_done"
            /\ best' = best_index(modularity_trace)
            /\ result' = [kind |-> "return",
                          best_coms |-> partitions_trace[best'],
                          best_mod |-> modularity_trace[best'],
                          modularity_trace |-> modularity_trace]
    /\ UNCHANGED <<heap, H, modularity_trace, partitions_trace, loaded, removed, cr_communities, cr_values, others>>

NextGN == GNCopy \/ GNStep \/ GNSelect

Spec == InitGN /\ [][NextGN]_vars

\* the interpreter runs the function to its end
FairSpec == Spec /\ WF_vars(NextGN)

\* ------------------------------------------------------------------------
\* conductance_report(G, communities)
\* ------------------------------------------------------------------------
\* the lists handed to conductance_report: the empty list, the components of
\* G, one community per node, and every split of the nodes in two
CommunityLists(g) ==
    {<<>>, connected_components(g), [i \in 1..Len(g.nodes) |-> {g.nodes[i]}]}
        \cup {<<C, NodeSet(g) \ C>> : C \in SUBSET NodeSet(g)}

InitCond ==
    \E recs \in EdgeLists :
        \E cs \in CommunityLists(build_graph(recs)) :
            /\ heap = (GObj :> build_graph(recs))
            /\ loaded = build_graph(recs)
            /\ H = NoObj
            /\ pc = "cr_values"
            /\ modularity_trace = <<>>
            /\ partitions_trace = <<>>
            /\ best = 0
            /\ result = NoResult
            /\ removed = <<>>
            /\ cr_communities = cs
            /\ cr_values = <<>>
            /\ OthersIdle

\* one element of  values = [conductance(G, c) for c in communities]
CRValue ==
    /\ pc = "cr_values"
    /\ Len(cr_values) < Len(cr_communities)
    /\ cr_values' = Append(cr_values, conductance(G, cr_communities[Len(cr_values) + 1]))
    /\ UNCHANGED <<heap, H, pc, modularity_trace, partitions_trace, best, result, loaded,
                   removed, cr_communities, others>>

\* the returned dictionary; sum(values) / len(values) divides by zero when
\* the list is empty
CRReturn ==
    /\ pc = "cr_values"
    /\ Len(cr_values) = Len(cr_communities)
    /\ IF Len(cr_values) = 0
       THEN /\ pc' = "cr_raised"
            /\ result' = [kind |-> "ZeroDivisionError"]
       ELSE /\ pc' = "cr_done"
            /\ result' = [kind |-> "return",
                          per_community |-> cr_values,
                          mean |-> MeanOf(cr_values),
                          min |-> MinOf(cr_values),
                          max |-> MaxOf(cr_values)]
    /\ UNCHANGED <<heap, H, modularity_trace, partitions_trace, best, loaded, removed,
                   cr_communities, cr_values, others>>

NextCond == CRValue \/ CRReturn

SpecCond == InitCond /\ [][NextCond]_vars

\* ------------------------------------------------------------------------
\* The two edge-list loaders, line by line
\*   build_graph            (scripts/clustering.py): skips a header line
\*   build_graph_from_file  (clustering_red.py): no header, try/except
\* ------------------------------------------------------------------------
LoaderNodes == {1, NumNodes}
LoaderScores == {1, MaxWeight}

\* a line of the file: a record a,b,s or one of the malformed kinds
\*   "blank"  an empty line          "fields"  not three fields
\*   "score"  three fields, the third not a number (the header is one)
RecordLines == [kind : {"record"}, a : LoaderNodes, b : LoaderNodes, s : LoaderScores]
MalformedLines == {[kind |-> k] : k \in {"blank", "fields", "score"}}
Lines == RecordLines \cup MalformedLines

RECURSIVE SeqsUpTo(_, _)
SeqsUpTo(S, n) ==
    IF n = 0 THEN {<<>>}
    ELSE LET shorter == SeqsUpTo(S, n - 1)
         IN  shorter \cup {Append(q, x) : q \in {r \in shorter : Len(r) = n - 1}, x \in S}

Files == SeqsUpTo(Lines, MaxLines)

Variants == {"build_graph", "build_graph_from_file"}

\* a, b, s = line.strip().split(","); s = float(s)
ParseLine(line) ==
    IF line.kind = "record"
    THEN [ok |-> TRUE, a |-> line.a, b |-> line.b, s |-> line.s]
    ELSE [ok |-> FALSE]

InitLoad ==
    \E f \in Files, v \in Variants :
        /\ loader = [on |-> TRUE, variant |-> v, lines |-> f, pos |-> 0, warnings |-> 0]
        /\ heap = (GObj :> EmptyGraph)
        /\ loaded = EmptyGraph
        /\ H = NoObj
        /\ pc = "ld_start"
        /\ modularity_trace = <<>>
        /\ partitions_trace = <<>>
        /\ best = 0
        /\ result = NoResult
        /\ removed = <<>>
        /\ cr_communities = <<>>
        /\ cr_values = <<>>
        /\ topo = Idle
        /\ clust = Idle
        /\ pipe = Idle
        /\ infomap = Idle
        /\ ora = Idle

\* G = nx.Graph(); build_graph reads one line as the header
LoadOpen ==
    /\ pc = "ld_start"
    /\ heap' = [heap EXCEPT ![GObj] = EmptyGraph]
    /\ loader' = [loader EXCEPT !.pos =
                     IF loader.variant = "build_graph" /\ Len(loader.lines) > 0
                     THEN 1 ELSE 0]
    /\ pc' = "ld_loop"
    /\ UNCHANGED <<H, modularity_trace, partitions_trace, best, result, loaded, removed,
                   cr_communities, cr_values, topo, clust, pipe, infomap, ora>>

\* one pass of  for line in f
LoadLine ==
    /\ pc = "ld_loop"
    /\ loader.pos < Len(loader.lines)
    /\ \E line \in {loader.lines[loader.pos + 1]} :
       \E p \in {ParseLine(line)} :
          IF loader.variant = "build_graph_from_file"
          THEN \* blank lines are passed over; a failing parse is caught
               /\ heap' = IF p.ok
                          THEN [heap EXCEPT ![GObj] = add_edge(@, p.a, p.b, p.s)]
                          ELSE heap
               /\ loader' = [loader EXCEPT
                               !.pos = @ + 1,
                               !.warnings = IF p.ok \/ line.kind = "blank" THEN @ ELSE @ + 1]
               /\ UNCHANGED <<pc, result>>
          ELSE \* no try: a failing unpack or float() leaves the function
               IF p.ok
               THEN /\ heap' = [heap EXCEPT ![GObj] = add_edge(@, p.a, p.b, p.s)]
                    /\ loader' = [loader EXCEPT !.pos = @ + 1]
                    /\ UNCHANGED <<pc, result>>
               ELSE /\ pc' = "ld_raised"
                    /\ result' = [kind |-> "ValueError"]
                    /\ loader' = [loader EXCEPT !.pos = @ + 1]
                    /\ UNCHANGED heap
    /\ UNCHANGED <<H, modularity_trace, partitions_trace, best, loaded, removed,
                   cr_communities, cr_values, topo, clust, pipe, infomap, ora>>

\* return G
LoadReturn ==
    /\ pc = "ld_loop"
    /\ loader.pos = Len(loader.lines)
    /\ pc' = "ld_done"
    /\ result' = [kind |-> "return", graph |-> heap[GObj]]
    /\ loaded' = heap[GObj]
    /\ UNCHANGED <<heap, H, modularity_trace, partitions_trace, best, removed,
                   cr_communities, cr_values, others>>

NextLoad == LoadOpen \/ LoadLine \/ LoadReturn

SpecLoad == InitLoad /\ [][NextLoad]_vars

\* ------------------------------------------------------------------------
\* _calcular_metricas_globales(G), in its two variants
\* ------------------------------------------------------------------------
TopoVariants == {"scripts/analizar_topologia_red.py", "analizar_topologia_red.py"}

InitTopo ==
    \E rows \in TopoEdgeLists, v \in TopoVariants, lv \in BOOLEAN :
        /\ topo = [on |-> TRUE, variant |-> v, has_louvain |-> lv, calls |-> <<>>,
                   n_nodos |-> None, n_aristas |-> None, grado_medio |-> None,
                   densidad |-> None, n_componentes |-> None, clustering_medio |-> None,
                   componentes |-> None, largest |-> None, diametro |-> None,
                   camino_medio |-> None]
        /\ heap = (GObj :> from_pandas_edgelist(rows))
        /\ loaded = from_pandas_edgelist(rows)
        /\ H = NoObj
        /\ pc = "tm_start"
        /\ modularity_trace = <<>>
        /\ partitions_trace = <<>>
        /\ best = 0
        /\ result = NoResult
        /\ removed = <<>>
        /\ cr_communities = <<>>
        /\ cr_values = <<>>
        /\ loader = Idle
        /\ clust = Idle
        /\ pipe = Idle
        /\ infomap = Idle
        /\ ora = Idle

TopoRest == <<heap, H, modularity_trace, partitions_trace, best, loaded, removed,
              cr_communities, cr_values, loader, clust, pipe, infomap, ora>>

\* an entry without the early return for the empty network
TMEntry_noguard ==
    /\ pc = "tm_start"
    /\ topo' = [topo EXCEPT !.n_nodos = Len(G.nodes), !.n_aristas = number_of_edges(G)]
    /\ pc' = "tm_basic"
    /\ UNCHANGED <<result, TopoRest>>

\* n_nodos, n_aristas and the early return for the empty network
TMEntry ==
    /\ pc = "tm_start"
    /\ topo' = [topo EXCEPT !.n_nodos = Len(G.nodes), !.n_aristas = number_of_edges(G)]
    /\ IF Len(G.nodes) = 0
       THEN /\ pc' = "tm_done"
            /\ result' = [kind |-> "return",
                          n_nodos |-> 0, n_aristas |-> 0,
                          grado_medio |-> Some(0), densidad |-> Some(0),
                          n_componentes |-> 0, coef_agrupamiento_medio |-> Some(0),
                          diametro_gc |-> None, longitud_camino_media_gc |-> None,
                          n_comunidades |-> 0, tamano_medio_comunidad |-> Some(0),
                          modularidad_preliminar |-> None]
       ELSE /\ pc' = "tm_basic"
            /\ UNCHANGED result
    /\ UNCHANGED TopoRest

\* grados, grado_medio, densidad, n_componentes, clustering_medio
TMBasic ==
    /\ pc = "tm_basic"
    /\ topo' = [topo EXCEPT
                  !.grado_medio =
                      Round(SumSet(NodeSet(G), [n \in NodeSet(G) |-> Degree(G, n)]),
                            topo.n_nodos, Thousand),
                  !.densidad = Round(density(G).num, density(G).den, TenThousand),
                  !.n_componentes = Len(connected_components(G)),
                  !.clustering_medio =
                      Round(average_clustering(G).num, average_clustering(G).den,
                            TenThousand),
                  !.calls = @ \o <<"degree", "division by n_nodos", "density",
                                  "number_connected_components", "average_clustering">>]
    /\ pc' = "tm_giant"
    /\ UNCHANGED <<result, TopoRest>>

\* componentes, largest, GC, diametro, camino_medio
TMGiant ==
    /\ pc = "tm_giant"
    /\ \E componentes \in {connected_components(G)} :
       \E largest \in {componentes[LargestFrom(componentes, 2, 1)]} :
       \E GC \in {subgraph(G, largest)} :
          topo' = [topo EXCEPT
                     !.componentes = componentes,
                     !.largest = largest,
                     !.diametro =
                         IF Len(GC.nodes) > 1 THEN Some(diameter(GC))
                         ELSE IF topo.variant = "scripts/analizar_topologia_red.py"
                              THEN None ELSE Some(0),
                     !.camino_medio =
                         IF Len(GC.nodes) > 1
                         THEN Some(Round(average_shortest_path_length(GC).num,
                                         average_shortest_path_length(GC).den, Thousand))
                         ELSE IF topo.variant = "scripts/analizar_topologia_red.py"
                              THEN None ELSE Some(0),
                     !.calls = @ \o <<"connected_components", "subgraph">>
                                 \o (IF Len(GC.nodes) > 1
                                     THEN <<"diameter", "average_shortest_path_length">>
                                     ELSE <<>>)]
    /\ pc' = "tm_comm"
    /\ UNCHANGED <<result, TopoRest>>

\* the preliminary communities, with or without louvain_communities, and
\* the returned record
TMCommunities ==
    /\ pc = "tm_comm"
    /\ \E comunidades \in (IF topo.has_louvain THEN LouvainOutcomes(G)
                             ELSE {topo.componentes}) :
          /\ result' = [kind |-> "return",
                        n_nodos |-> topo.n_nodos, n_aristas |-> topo.n_aristas,
                        grado_medio |-> Some(topo.grado_medio),
                        densidad |-> Some(topo.densidad),
                        n_componentes |-> topo.n_componentes,
                        coef_agrupamiento_medio |-> Some(topo.clustering_medio),
                        diametro_gc |-> topo.diametro,
                        longitud_camino_media_gc |-> topo.camino_medio,
                        n_comunidades |-> Len(comunidades),
                        tamano_medio_comunidad |->
                            Some(Round(SumSeq([k \in 1..Len(comunidades) |->
                                                 Cardinality(comunidades[k])]),
                                       Len(comunidades), Hundred)),
                        modularidad_preliminar |->
                            IF topo.has_louvain /\ topo.n_aristas > 0
                            THEN Some(ModularityW(G, comunidades, UnitWeights(G)))
                            ELSE None]
          /\ topo' = [topo EXCEPT !.calls = @ \o (IF topo.has_louvain
                                                  THEN <<"louvain_communities">> ELSE <<>>)
                                               \o (IF topo.has_louvain /\ topo.n_aristas > 0
                                                   THEN <<"modularity">> ELSE <<>>)]
    /\ pc' = "tm_done"
    /\ UNCHANGED TopoRest

NextTopo == TMEntry \/ TMBasic \/ TMGiant \/ TMCommunities

SpecTopo == InitTopo /\ [][NextTopo]_vars

\* ------------------------------------------------------------------------
\* pipeline(), in its two variants
\*   scripts/pipeline.py  reads res_clust['fast_greedy'] after the clustering;
\*                        ejecutar_clustering has no return statement, so
\*                        res_clust is None and the subscript raises TypeError
\*   pipeline.py          three stages per configuration
\* ------------------------------------------------------------------------
MODOS == <<"hpo", "manual">>
SCORES == <<300, 700, 900>>

\* the configurations with the score loop outside the mode loop
Configs_scoremajor ==
    [k \in 1..(Len(MODOS) * Len(SCORES)) |->
        <<MODOS[((k - 1) % Len(MODOS)) + 1], SCORES[((k - 1) \div Len(MODOS)) + 1]>>]

\* the configurations in the order of  for modo in MODOS: for score in SCORES
Configs ==
    [k \in 1..(Len(MODOS) * Len(SCORES)) |->
        <<MODOS[((k - 1) \div Len(SCORES)) + 1], SCORES[((k - 1) % Len(SCORES)) + 1]>>]

PipeVariants == {"scripts/pipeline.py", "pipeline.py"}

\* tabla_clusters[modo][score] = {} before the loop
EmptyDict == [kind |-> "dict", keys |-> {}]

\* ejecutar_clustering has no return statement
ejecutar_clustering_returns == [kind |-> "None"]

\* value[key]
Subscript(value, key) ==
    IF value.kind = "None" THEN [kind |-> "TypeError"]
    ELSE IF key \notin value.keys THEN [kind |-> "KeyError"]
    ELSE [kind |-> "value", value |-> value.items[key]]

InitPipe ==
    \E missing \in SUBSET Range(Configs), v \in PipeVariants :
        /\ pipe = [on |-> TRUE, variant |-> v, missing |-> missing, idx |-> 1, log |-> {},
                   order |-> <<>>,
                   tabla_clusters |-> [c \in Range(Configs) |-> EmptyDict]]
        /\ heap = (GObj :> EmptyGraph)
        /\ loaded = EmptyGraph
        /\ H = NoObj
        /\ pc = "pl_generar"
        /\ modularity_trace = <<>>
        /\ partitions_trace = <<>>
        /\ best = 0
        /\ result = NoResult
        /\ removed = <<>>
        /\ cr_communities = <<>>
        /\ cr_values = <<>>
        /\ loader = Idle
        /\ topo = Idle
        /\ clust = Idle
        /\ infomap = Idle
        /\ ora = Idle

PipeRest == <<heap, H, modularity_trace, partitions_trace, best, loaded, removed,
              cr_communities, cr_values, loader, topo, clust, infomap, ora>>

\* stage 1, generar_red(modo, score, ...): an input that is missing or cannot
\* be read raises, and nothing in pipeline() catches it
PipeGenerar ==
    /\ pc = "pl_generar"
    /\ IF Configs[pipe.idx] \in pipe.missing
       THEN /\ pc' = "pl_raised"
            /\ result' = [kind |-> "FileNotFoundError", config |-> Configs[pipe.idx]]
            /\ UNCHANGED pipe
       ELSE /\ pc' = "pl_topologia"
            /\ pipe' = [pipe EXCEPT !.log = @ \cup {<<Configs[pipe.idx], "generar_red">>},
                                    !.order = Append(@, <<Configs[pipe.idx], "generar_red">>)]
            /\ UNCHANGED result
    /\ UNCHANGED PipeRest

\* stage 2, analizar_topologia(modo, score)
PipeTopologia ==
    /\ pc = "pl_topologia"
    /\ pc' = "pl_clustering"
    /\ pipe' = [pipe EXCEPT !.log = @ \cup {<<Configs[pipe.idx], "analizar_topologia">>},
                            !.order = Append(@, <<Configs[pipe.idx], "analizar_topologia">>)]
    /\ UNCHANGED <<result, PipeRest>>

\* the three branches of ejecutar_clustering, in the order they run
ClusteringBranches(c) == <<<<c, "greedy">>, <<c, "girvan_newman">>, <<c, "infomap">>>>

\* the tables after the loops, one per mode
Tablas ==
    [i \in 1..Len(MODOS) |-> <<<<MODOS[i], 0>>, "generar_tabla_clusters_avanzada">>]

\* stage 3, ejecutar_clustering(modo, score), and what follows it in the
\* loop body. In scripts/pipeline.py the value returned is stored in
\* tabla_clusters and then subscripted for the printout; the enrichment stage
\* and, after the last configuration, the tables follow.
PipeClustering ==
    /\ pc = "pl_clustering"
    /\ LET c         == Configs[pipe.idx]
           last      == pipe.idx = Len(Configs)
           res_clust == ejecutar_clustering_returns
           ran       == [pipe EXCEPT !.log = @ \cup {<<c, "ejecutar_clustering">>},
                                     !.order = @ \o ClusteringBranches(c)]
       IN  IF pipe.variant = "scripts/pipeline.py"
           THEN IF Subscript(res_clust, "fast_greedy").kind # "value"
                THEN /\ pipe' = [ran EXCEPT !.tabla_clusters[c] = res_clust]
                     /\ pc' = "pl_raised"
                     /\ result' = [kind |-> Subscript(res_clust, "fast_greedy").kind,
                                   config |-> c]
                ELSE /\ pipe' = [ran EXCEPT
                                   !.tabla_clusters[c] = res_clust,
                                   !.log = @ \cup {<<c, "analisis_funcional_clusters">>},
                                   !.order = Append(@, <<c, "analisis_funcional_clusters">>)
                                                \o (IF last THEN Tablas ELSE <<>>),
                                   !.idx = IF last THEN @ ELSE @ + 1]
                     /\ pc' = IF last THEN "pl_done" ELSE "pl_generar"
                     /\ result' = IF last THEN [kind |-> "return"] ELSE result
           ELSE /\ pipe' = [ran EXCEPT !.idx = IF last THEN @ ELSE @ + 1]
                /\ pc' = IF last THEN "pl_done" ELSE "pl_generar"
                /\ result' = IF last THEN [kind |-> "return"] ELSE result
    /\ UNCHANGED PipeRest

NextPipe == PipeGenerar \/ PipeTopologia \/ PipeClustering

SpecPipe == InitPipe /\ [][NextPipe]_vars

\* ------------------------------------------------------------------------
\* greedy_modularity_communities(G, weight="weight"): Clauset-Newman-Moore.
\* Every node starts as its own community; the pair of communities joined
\* by an edge whose merge raises modularity most is merged, ties going to
\* the lowest pair, until the best merge would lower modularity; the
\* communities are returned largest first.
\* ------------------------------------------------------------------------
\* weight between two communities and the gain of merging them, the gain
\* scaled by S^2 / 2 with S the weighted degree sum
WeightBetween(g, wt, A, B) ==
    SumSet({e \in EdgeSet(g) : e \cap A # {} /\ e \cap B # {}}, wt)

MergeGain(g, wt, deg, S, A, B) ==
    S * WeightBetween(g, wt, A, B) - SumSet(A, deg) * SumSet(B, deg)

\* live: the labels of the communities in dictionary order; com: their members
RECURSIVE GreedyMerge(_, _, _, _, _, _)
GreedyMerge(g, wt, deg, S, live, com) ==
    LET cand == {p \in Range(live) \X Range(live) :
                    /\ p[1] < p[2]
                    /\ \E e \in EdgeSet(g) : e \cap com[p[1]] # {} /\ e \cap com[p[2]] # {}}
    IN  IF cand = {} THEN [k \in 1..Len(live) |-> com[live[k]]]
        ELSE Once(Tabulate([p \in cand |-> MergeGain(g, wt, deg, S, com[p[1]], com[p[2]])]),
                  LAMBDA dq :
                    LET b == CHOOSE p \in cand :
                                \A q \in cand : dq[p] > dq[q] \/ (dq[p] = dq[q] /\ PairLeq(p, q))
                    IN  IF dq[b] < 0 THEN [k \in 1..Len(live) |-> com[live[k]]]
                        ELSE GreedyMerge(g, wt, deg, S, RemoveFromSeq(live, b[1]),
                                         [com EXCEPT ![b[2]] = com[b[1]] \cup com[b[2]]]))

\* sorted(communities, key=len, reverse=True): stable
RECURSIVE SortedBySize(_)
SortedBySize(cs) ==
    IF cs = <<>> THEN <<>>
    ELSE LET i == CHOOSE k \in 1..Len(cs) :
                    /\ \A j \in 1..Len(cs) : Cardinality(cs[j]) <= Cardinality(cs[k])
                    /\ \A j \in 1..(k - 1) : Cardinality(cs[j]) < Cardinality(cs[k])
         IN  <<cs[i]>> \o SortedBySize([k \in 1..(Len(cs) - 1) |->
                                          IF k < i THEN cs[k] ELSE cs[k + 1]])

\* the cutoff check raises on a graph without nodes, 1 / G.size(weight) on
\* one without edge weight
greedy_modularity_communities(g) ==
    IF g.nodes = <<>> THEN [kind |-> "ValueError"]
    ELSE Once(Tabulate([n \in NodeSet(g) |-> WDegree(g, AttrWeights(g), n)]),
              LAMBDA deg :
                Once(SumSet(NodeSet(g), deg),
                     LAMBDA S :
                       IF S = 0 THEN [kind |-> "ZeroDivisionError"]
                       ELSE [kind |-> "return",
                             communities |->
                                SortedBySize(GreedyMerge(g, AttrWeights(g), deg, S, g.nodes,
                                                         [n \in NodeSet(g) |-> {n}]))]))

\* ------------------------------------------------------------------------
\* The three algorithms run one after the other
\*   scripts/clustering.py  ejecutar_clustering(modo, score)
\*   clustering_red.py      main() and the three ejecutar_algoritmo_*
\* ------------------------------------------------------------------------
\* girvan_newman_full as a function of G: the loop, then the selection
RECURSIVE GNTraceOf(_, _)
GNTraceOf(g, h) ==
    IF ~LoopCond(h) THEN <<>>
    ELSE Once(connected_components(h),
              LAMBDA communities :
                Once(MaxBetweennessEdge(h),
                     LAMBDA edge :
                       <<[communities |-> communities, Q |-> modularity(g, communities)]>>
                           \o GNTraceOf(g, remove_edge(h, edge[1], edge[2]))))

girvan_newman_full(g) ==
    Once(GNTraceOf(g, g),
         LAMBDA tr :
           IF tr = <<>> THEN [kind |-> "ValueError"]
           ELSE Once(best_index([k \in 1..Len(tr) |-> tr[k].Q]),
                     LAMBDA b : [kind |-> "return",
                                 best_coms |-> tr[b].communities,
                                 best_mod |-> tr[b].Q,
                                 modularity_trace |-> [k \in 1..Len(tr) |-> tr[k].Q]]))

\* conductance_report(G, communities) as a function
conductance_report(g, communities) ==
    IF communities = <<>> THEN [kind |-> "ZeroDivisionError"]
    ELSE Once([k \in 1..Len(communities) |-> conductance(g, communities[k])],
              LAMBDA values : [kind |-> "return",
                               per_community |-> values,
                               mean |-> MeanOf(values),
                               min |-> MinOf(values),
                               max |-> MaxOf(values)])

\* sorted(c)
RECURSIVE sorted(_)
sorted(c) ==
    IF c = {} THEN <<>>
    ELSE LET x == CHOOSE y \in c : \A z \in c : y <= z
         IN  <<x>> \o sorted(c \ {x})

SortedLists(communities) == [k \in 1..Len(communities) |-> sorted(communities[k])]

\* infomap_partition is not reproduced here: it returns some partition of
\* the nodes into connected communities
AlgoOutcomes(g) == LouvainOutcomes(g)

Algos == {"greedy", "gn", "infomap"}

ClustVariants == {"scripts/clustering.py", "clustering_red.py"}

ClustEdgeLists ==
    {Rows(E, <<1, 2>>, 1) : E \in {X \in SUBSET Pairs : Cardinality(X) <= MaxLinks}}

\* the branch that fails for a reason outside the graph (solver missing or
\* failing, ...): none, or one of the three
InitClust ==
    \E rows \in ClustEdgeLists, v \in ClustVariants,
       fails \in {{}} \cup {{a} : a \in Algos} :
        /\ clust = [on |-> TRUE, variant |-> v, rows |-> rows, fails |-> fails,
                    written |-> <<>>]
        /\ heap = (GObj :> EmptyGraph)
        /\ loaded = EmptyGraph
        /\ H = NoObj
        /\ pc = "ec_load"
        /\ modularity_trace = <<>>
        /\ partitions_trace = <<>>
        /\ best = 0
        /\ result = NoResult
        /\ removed = <<>>
        /\ cr_communities = <<>>
        /\ cr_values = <<>>
        /\ loader = Idle
        /\ topo = Idle
        /\ pipe = Idle
        /\ infomap = Idle
        /\ ora = Idle

ClustRest == <<H, modularity_trace, partitions_trace, best, removed,
               cr_communities, cr_values, loader, topo, pipe, infomap, ora>>

\* G = build_graph(path_red)
ClustLoad ==
    /\ pc = "ec_load"
    /\ heap' = [heap EXCEPT ![GObj] = build_graph(clust.rows)]
    /\ loaded' = build_graph(clust.rows)
    /\ pc' = "ec_greedy"
    /\ UNCHANGED <<clust, result, ClustRest>>

\* the exception of a branch leaves the function: nothing catches it
Raise(branch, exc) ==
    /\ pc' = "ec_raised"
    /\ result' = [kind |-> exc, branch |-> branch]
    /\ UNCHANGED clust

Graph(g) == [nodes |-> Len(g.nodes), edges |-> number_of_edges(g)]

\* 1) greedy modularity: communities, Q, (conductance,) plot, record
ClustGreedy ==
    /\ pc = "ec_greedy"
    /\ IF "greedy" \in clust.fails THEN Raise("greedy", "Exception")
       ELSE IF greedy_modularity_communities(G).kind # "return"
       THEN Raise("greedy", greedy_modularity_communities(G).kind)
       ELSE \E communities \in {greedy_modularity_communities(G).communities} :
              /\ pc' = "ec_gn"
              /\ UNCHANGED result
              /\ clust' = [clust EXCEPT !.written = @ \o
                    IF clust.variant = "scripts/clustering.py"
                    THEN <<[branch |-> "greedy", filename |-> "greedy.png",
                            data |-> [format |-> "png"]],
                           [branch |-> "greedy", filename |-> "resultados.json",
                            data |-> [algorithm |-> "greedy_modularity",
                                      modularity |-> modularity(G, communities),
                                      communities |-> SortedLists(communities)]]>>
                    ELSE <<[branch |-> "greedy", filename |-> "greedy_modularity.png",
                            data |-> [format |-> "png"]],
                           [branch |-> "greedy", filename |-> "resultados_greedy_modularity.json",
                            data |-> [algorithm |-> "greedy_modularity",
                                      modularity |-> modularity(G, communities),
                                      num_communities |-> Len(communities),
                                      communities |-> SortedLists(communities),
                                      conductance |-> conductance_report(G, communities),
                                      graph |-> Graph(G)]]>>]
    /\ UNCHANGED <<heap, loaded, ClustRest>>

\* 2) Girvan-Newman: best partition, (conductance,) plots, record
ClustGN ==
    /\ pc = "ec_gn"
    /\ IF "gn" \in clust.fails THEN Raise("gn", "Exception")
       ELSE \E r \in {girvan_newman_full(G)} :
            IF r.kind # "return" THEN Raise("gn", r.kind)
            ELSE /\ pc' = "ec_infomap"
                 /\ UNCHANGED result
                 /\ clust' = [clust EXCEPT !.written = @ \o
                       IF clust.variant = "scripts/clustering.py"
                       THEN <<[branch |-> "gn", filename |-> "gn.png",
                               data |-> [format |-> "png"]],
                              [branch |-> "gn", filename |-> "resultados.json",
                               data |-> [algorithm |-> "girvan_newman",
                                         best_modularity |-> r.best_mod,
                                         communities |-> SortedLists(r.best_coms),
                                         modularity_trace |-> r.modularity_trace]]>>
                       ELSE <<[branch |-> "gn", filename |-> "gn_best.png",
                               data |-> [format |-> "png"]],
                              [branch |-> "gn", filename |-> "gn_trace.png",
                               data |-> [format |-> "png"]],
                              [branch |-> "gn", filename |-> "resultados_edge_betweenness.json",
                               data |-> [algorithm |-> "edge_betweenness_girvan_newman",
                                         best_modularity |-> r.best_mod,
                                         num_communities |-> Len(r.best_coms),
                                         best_partition |-> SortedLists(r.best_coms),
                                         conductance |-> conductance_report(G, r.best_coms),
                                         modularity_trace |-> r.modularity_trace,
                                         graph |-> Graph(G)]]>>]
    /\ UNCHANGED <<heap, loaded, ClustRest>>

\* 3) Infomap: communities, codelength, (conductance,) plot, record
ClustInfomap ==
    /\ pc = "ec_infomap"
    /\ IF "infomap" \in clust.fails THEN Raise("infomap", "Exception")
       ELSE \E communities \in AlgoOutcomes(G), L \in {0, MaxModules} :
              /\ pc' = "ec_done"
              /\ result' = [kind |-> "return"]
              /\ clust' = [clust EXCEPT !.written = @ \o
                    IF clust.variant = "scripts/clustering.py"
                    THEN <<[branch |-> "infomap", filename |-> "infomap.png",
                            data |-> [format |-> "png"]],
                           [branch |-> "infomap", filename |-> "resultados.json",
                            data |-> [algorithm |-> "infomap",
                                      codelength |-> L,
                                      communities |-> SortedLists(communities)]]>>
                    ELSE <<[branch |-> "infomap", filename |-> "infomap_comunidades.png",
                            data |-> [format |-> "png"]],
                           [branch |-> "infomap", filename |-> "resultados_infomap.json",
                            data |-> [algorithm |-> "infomap",
                                      codelength |-> L,
                                      num_communities |-> Len(communities),
                                      communities |-> SortedLists(communities),
                                      conductance |-> conductance_report(G, communities),
                                      graph |-> Graph(G)]]>>]
    /\ UNCHANGED <<heap, loaded, ClustRest>>

NextClust == ClustLoad \/ ClustGreedy \/ ClustGN \/ ClustInfomap

SpecClust == InitClust /\ [][NextClust]_vars

\* ------------------------------------------------------------------------
\* infomap_partition(G)
\* ------------------------------------------------------------------------
\* graphs handed to infomap_partition: loaded from at most MaxLinks rows,
\* and the same with one more node that has no edge
InfomapEdgeLists ==
    {Rows(E, h, s) : E \in {X \in SUBSET Pairs : Cardinality(X) <= MaxLinks},
                     h \in Pairs, s \in Scores}

InfomapGraphs ==
    {build_graph(rows) : rows \in InfomapEdgeLists}
        \cup {add_node(build_graph(rows), n) : rows \in InfomapEdgeLists, n \in Node}

\* {n: i for i, n in enumerate(G.nodes())}
Enumerate(nodes) == [n \in Range(nodes) |-> (CHOOSE i \in 1..Len(nodes) : nodes[i] = n) - 1]

\* an inverse that takes node identifiers to be 1, 2, ... in id order
DictInverse_bypos(d) == [i \in Range1(d) |-> i + 1]

\* {i: n for n, i in node_to_id.items()}
DictInverse(d) == [i \in Range1(d) |-> CHOOSE n \in DOMAIN d : d[n] = i]

\* the ids the solver has been told about: the endpoints of the links
ToldIds(links) == UNION {{links[k][1], links[k][2]} : k \in 1..Len(links)}

\* im.run(): the solver is not reproduced; it gives every id it was told
\* about one module out of 1, 2, ..., and a codelength
SolverOutcomes(links) ==
    LET T == ToldIds(links)
        assigns == {[i \in T |-> 1 + (i % k)] : k \in 1..MaxModules}
                       \cup {[i \in T |-> i + 1], [i \in T |-> 1 + (i \div MaxModules)]}
    IN  {[assign |-> a, codelength |-> L] : a \in assigns, L \in 0..MaxModules}

\* im.modules: the pairs (node_id, module_id), module by module
RECURSIVE ModulesSeq(_)
ModulesSeq(a) ==
    IF DOMAIN a = {} THEN <<>>
    ELSE LET i == CHOOSE x \in DOMAIN a :
                    \A y \in DOMAIN a : a[x] < a[y] \/ (a[x] = a[y] /\ x <= y)
         IN  <<<<i, a[i]>>>> \o ModulesSeq([y \in (DOMAIN a) \ {i} |-> a[y]])

\* the loop over im.modules: a dict module_id -> set of nodes, kept as the
\* list of its items in insertion order
RECURSIVE Collect(_, _, _, _)
Collect(modules, id_to_node, k, dict) ==
    IF k > Len(modules) THEN dict
    ELSE LET node == id_to_node[modules[k][1]]
             m    == modules[k][2]
         IN  Collect(modules, id_to_node, k + 1,
                     IF \E j \in 1..Len(dict) : dict[j][1] = m
                     THEN [j \in 1..Len(dict) |->
                             IF dict[j][1] = m THEN <<m, dict[j][2] \cup {node}>> ELSE dict[j]]
                     ELSE Append(dict, <<m, {node}>>))

InitInfomap ==
    \E g \in InfomapGraphs :
        /\ infomap = [on |-> TRUE, node_to_id |-> <<>>, id_to_node |-> <<>>,
                      links |-> <<>>, edges |-> Edges(g), run |-> [assign |-> <<>>, codelength |-> 0]]
        /\ heap = (GObj :> g)
        /\ loaded = g
        /\ H = NoObj
        /\ pc = "im_ids"
        /\ modularity_trace = <<>>
        /\ partitions_trace = <<>>
        /\ best = 0
        /\ result = NoResult
        /\ removed = <<>>
        /\ cr_communities = <<>>
        /\ cr_values = <<>>
        /\ loader = Idle
        /\ topo = Idle
        /\ clust = Idle
        /\ pipe = Idle
        /\ ora = Idle

InfomapRest == <<heap, H, modularity_trace, partitions_trace, best, loaded, removed,
                 cr_communities, cr_values, loader, topo, clust, pipe, ora>>

\* node_to_id and id_to_node
IMIds ==
    /\ pc = "im_ids"
    /\ \E n2i \in {Enumerate(G.nodes)} :
          infomap' = [infomap EXCEPT !.node_to_id = n2i, !.id_to_node = DictInverse(n2i)]
    /\ pc' = "im_links"
    /\ UNCHANGED <<result, InfomapRest>>

\* one pass of  for u, v, data in G.edges(data=True): im.add_link(...)
IMAddLink ==
    /\ pc = "im_links"
    /\ Len(infomap.links) < Len(infomap.edges)
    /\ \E e \in {infomap.edges[Len(infomap.links) + 1]} :
          infomap' = [infomap EXCEPT !.links =
                        Append(@, <<infomap.node_to_id[e[1]], infomap.node_to_id[e[2]],
                                    G.attr[{e[1], e[2]}].weight>>)]
    /\ UNCHANGED <<pc, result, InfomapRest>>

\* im.run()
IMRun ==
    /\ pc = "im_links"
    /\ Len(infomap.links) = Len(infomap.edges)
    /\ \E out \in SolverOutcomes(infomap.links) : infomap' = [infomap EXCEPT !.run = out]
    /\ pc' = "im_collect"
    /\ UNCHANGED <<result, InfomapRest>>

\* the loop over im.modules and the return
IMReturn ==
    /\ pc = "im_collect"
    /\ \E dict \in {Collect(ModulesSeq(infomap.run.assign), infomap.id_to_node, 1, <<>>)} :
          result' = [kind |-> "return",
                     communities |-> [j \in 1..Len(dict) |-> dict[j][2]],
                     codelength |-> infomap.run.codelength]
    /\ pc' = "im_done"
    /\ UNCHANGED <<infomap, InfomapRest>>

NextInfomap == IMIds \/ IMAddLink \/ IMRun \/ IMReturn

SpecInfomap == InitInfomap /\ [][NextInfomap]_vars

\* ------------------------------------------------------------------------
\* One algorithm run twice on the same graph object, other work in between
\*   greedy:  communities = list(greedy_modularity_communities(G, weight="weight"))
\*            Q = modularity(G, communities)
\*   infomap: infomap_partition(G)
\* ------------------------------------------------------------------------
\* the arguments infomap_partition constructs the solver with
InfomapArgs == {"--two-level", "--silent"}

\* the seeds of the solver's random generator
Seeds == 1..MaxModules

\* the seed the solver runs with: the one it is given, else the default
\* built into the solver
SolverSeed(args, given, default) == IF "--seed" \in args THEN given ELSE default

\* the solver as a function of the links it was told and of its seed
SolverFn(links, seed) ==
    [assign |-> [i \in ToldIds(links) |-> 1 + (i % seed)], codelength |-> seed]

\* infomap_partition(G) as a function of G and of the solver's default seed
infomap_partition(g, default) ==
    LET n2i   == Enumerate(g.nodes)
        i2n   == DictInverse(n2i)
        es    == Edges(g)
        links == [k \in 1..Len(es) |->
                    <<n2i[es[k][1]], n2i[es[k][2]], g.attr[{es[k][1], es[k][2]}].weight>>]
        out   == SolverFn(links, SolverSeed(InfomapArgs, default, default))
        dict  == Collect(ModulesSeq(out.assign), i2n, 1, <<>>)
    IN  [kind |-> "return",
         args |-> InfomapArgs,
         communities |-> [j \in 1..Len(dict) |-> dict[j][2]],
         codelength |-> out.codelength]

\* the greedy step: the partition and the modularity it reports
GreedyStep(g) ==
    Once(greedy_modularity_communities(g),
         LAMBDA r : IF r.kind # "return" THEN r
                    ELSE [kind |-> "return",
                          communities |-> r.communities,
                          modularity |-> modularity(g, r.communities)])

\* a Girvan-Newman run that works on G itself
RECURSIVE RemoveAllEdges(_)
RemoveAllEdges(g) ==
    IF ~LoopCond(g) THEN g
    ELSE Once(MaxBetweennessEdge(g),
              LAMBDA edge : RemoveAllEdges(remove_edge(g, edge[1], edge[2])))

GNHeapAfter_inplace(hp) == [hp EXCEPT ![GObj] = RemoveAllEdges(@)]

\* the heap after girvan_newman_full(G): every edge is removed from the
\* copy H, G is as before
GNHeapAfter(hp) ==
    Once(deepcopy(hp, GObj),
         LAMBDA c : [c.heap EXCEPT ![c.ref] = RemoveAllEdges(@)])

RepeatAlgs == {"greedy", "infomap"}

\* what runs on G between the two runs (the solver's default seed plays no
\* part in the greedy runs and is left at 1 there)
Between == {"nothing", "girvan_newman", "infomap", "greedy"}

InitRepeat ==
    \E recs \in EdgeLists, alg \in RepeatAlgs, default \in Seeds :
        /\ alg = "greedy" => default = 1
        /\ clust = [on |-> TRUE, alg |-> alg, default |-> default,
                    runs |-> <<>>, between |-> "nothing"]
        /\ heap = (GObj :> build_graph(recs))
        /\ loaded = build_graph(recs)
        /\ H = NoObj
        /\ pc = "rp_run"
        /\ modularity_trace = <<>>
        /\ partitions_trace = <<>>
        /\ best = 0
        /\ result = NoResult
        /\ removed = <<>>
        /\ cr_communities = <<>>
        /\ cr_values = <<>>
        /\ loader = Idle
        /\ topo = Idle
        /\ pipe = Idle
        /\ infomap = Idle
        /\ ora = Idle

RepeatRest == <<H, modularity_trace, partitions_trace, best, result, loaded, removed,
                cr_communities, cr_values, loader, topo, pipe, infomap, ora>>

\* one run of the algorithm on G as it is now
RepeatRun ==
    /\ pc = "rp_run"
    /\ clust' = [clust EXCEPT !.runs =
                    Append(@, IF clust.alg = "greedy" THEN GreedyStep(G)
                              ELSE infomap_partition(G, clust.default))]
    /\ pc' = IF Len(clust.runs) = 0 THEN "rp_between" ELSE "rp_done"
    /\ UNCHANGED <<heap, RepeatRest>>

\* between the two runs: nothing, or one of the algorithms on the same G
RepeatBetween ==
    /\ pc = "rp_between"
    /\ \E b \in Between :
          /\ clust' = [clust EXCEPT !.between = b]
          /\ heap' = IF b = "girvan_newman" THEN GNHeapAfter(heap) ELSE heap
    /\ pc' = "rp_run"
    /\ UNCHANGED RepeatRest

NextRepeat == RepeatRun \/ RepeatBetween

SpecRepeat == InitRepeat /\ [][NextRepeat]_vars

\* ------------------------------------------------------------------------
\* Two disjoint triangles through girvan_newman_full and conductance_report
\* (ejecutar_algoritmo_edge_betweenness)
\* ------------------------------------------------------------------------
TriangleA == {1, 2, 3}
TriangleB == {4, 5, 6}

TrianglePairs ==
    {p \in (TriangleA \X TriangleA) \cup (TriangleB \X TriangleB) : p[1] < p[2]}

\* the six records in three file orders: sorted, reversed, and the two
\* triangles interleaved
TriangleOrders ==
    LET ps == SortedPairs(TrianglePairs)
        n  == Len(ps)
    IN  {ps,
         [i \in 1..n |-> ps[n + 1 - i]],
         [i \in 1..n |-> IF i % 2 = 1 THEN ps[(i + 1) \div 2] ELSE ps[(n \div 2) + (i \div 2)]]}

InitTri ==
    \E order \in TriangleOrders, score \in [TrianglePairs -> Scores] :
        \E g \in {LoadFrom(EmptyGraphOn(Cardinality(TriangleA \cup TriangleB)),
                            [i \in 1..Len(order) |->
                                <<order[i][1], order[i][2], score[order[i]]>>], 1)} :
            /\ heap = (GObj :> g)
            /\ loaded = g
            /\ H = NoObj
            /\ pc = "gn_start"
            /\ modularity_trace = <<>>
            /\ partitions_trace = <<>>
            /\ best = 0
            /\ result = NoResult
            /\ removed = <<>>
            /\ cr_communities = <<>>
            /\ cr_values = <<>>
            /\ OthersIdle

\* cond = conductance_report(G, best_coms)
TriReport ==
    /\ pc = "gn_done"
    /\ cr_communities' = result.best_coms
    /\ pc' = "cr_values"
    /\ UNCHANGED <<heap, H, modularity_trace, partitions_trace, best, result, loaded,
                   removed, cr_values, others>>

NextTri == GNCopy \/ GNStep \/ GNSelect \/ TriReport \/ CRValue \/ CRReturn

SpecTri == InitTri /\ [][NextTri]_vars

\* ------------------------------------------------------------------------
\* After the clustering of one configuration: enrichment per cluster
\* (analisis_funcional_clusters), summary table
\* (generar_tabla_clusters_avanzada), comparison of the three databases
\* (analisis_funcional_comparativo). Files are records path |-> content.
\* ------------------------------------------------------------------------
\* the three algorithms, and the name each stage gives them
Roles == <<"greedy", "gn", "infomap">>

\* preparar_rutas of clustering.py: the directory the record is written to
ClusteringDir(role) ==
    CASE role = "greedy"  -> "greedy_modularity"
      [] role = "gn"      -> "edge_betweenness"
      [] role = "infomap" -> "infomap"

\* the keys of `algoritmos` in analisis_funcional_clusters, in dict order
OraAlgoritmos == <<"fast_greedy", "edge_betweenness", "infomap">>

\* the list `algoritmos` of generar_tabla_clusters_avanzada
ResumenAlgoritmos == <<"infomap", "fast_greedy", "edge_betweenness">>

\* the list `algoritmos` of analisis_funcional_comparativo
CompAlgoritmos == <<"greedy_modularity", "edge_betweenness", "infomap">>

\* the algorithm a stage means by a name
RoleOf(name) ==
    CASE name \in {"fast_greedy", "greedy_modularity"} -> "greedy"
      [] name = "edge_betweenness"                     -> "gn"
      [] name = "infomap"                              -> "infomap"

\* BASE / "resultados" / "redes" / f"{modo}_score{score}" / "clustering"
\*      / <dir> / "resultados.json"
WrittenPath(c, role) ==
    [root |-> "resultados", config |-> c, dir |-> ClusteringDir(role),
     name |-> [stem |-> "resultados", modo |-> "", score |-> 0]]

\* RESULTADOS_DIR / "redes" / f"{modo}_score{score}" / "clustering"
\*      / <alg> / f"{alg}_{modo}_score{score}.json",  RESULTADOS_DIR = .../"results"
LookupPath(c, alg) ==
    [root |-> "results", config |-> c, dir |-> alg,
     name |-> [stem |-> alg, modo |-> c[1], score |-> c[2]]]

\* .../funcional/<alg>/cluster_<idx>/<db>/enrichment_results.csv
CsvPath(c, alg, idx, db) ==
    [root |-> "results", config |-> c, alg |-> alg, cluster |-> idx, db |-> db]

DBs == <<"GO", "KEGG", "Reactome">>

\* adjusted p-values in hundredths; the significance threshold 0.05
Alpha == 5

\* the least number of genes of a cluster that is analysed / read
MinGenesOra == 3
MinGenesResumen == 3

\* what the enrichment service answers for a gene list and a database: the
\* adjusted p-values of the terms it returns. Three services: one that
\* returns nothing, one that returns significant terms only, one that also
\* returns terms that are not significant.
EnrichrServices == {"none", "significant", "mixed"}

enrichr(service, genes, db) ==
    CASE service = "none" -> <<>>
      [] service = "significant" ->
            (CASE db = "GO"       -> [i \in 1..(Len(genes) - 2) |-> 1]
               [] db = "KEGG"     -> <<1>>
               [] db = "Reactome" -> <<>>)
      [] service = "mixed" ->
            (CASE db = "GO"       -> <<1, 50>>
               [] db = "KEGG"     -> <<50>>
               [] db = "Reactome" -> <<Alpha>>)

\* ora_base: the file enrichment_results.csv written for one database
ora_base(service, genes, db) ==
    LET df == enrichr(service, genes, db)
    IN  IF df = <<>> THEN [text |-> "NO RESULTS", padj |-> <<>>]
        ELSE [text |-> "csv", padj |-> df]

\* pd.read_csv of such a file: the columns and the rows
read_csv(content) ==
    IF content.text = "NO RESULTS"
    THEN [columns |-> {"NO RESULTS"}, padj |-> <<>>]
    ELSE [columns |-> {"Term", "Adjusted P-value"}, padj |-> content.padj]

\* the files of the model's file system
JsonAt(path) == {f \in ora.json : f.path = path}
CsvAt(path) == {f \in ora.csv : f.path = path}

\* the lists of communities of the model: up to MaxClusters clusters of 1
\* to MaxGenes genes
MakeCluster(n) == [i \in 1..n |-> i]

ClusterLists ==
    UNION {[1..k -> {MakeCluster(n) : n \in 1..MaxGenes}] : k \in 0..MaxClusters}

\* the configurations the stages are run for
OraConfigs == {Configs[1], Configs[Len(Configs)]}

\* result files found at the looked-up paths before the run: none, the
\* one of infomap, or all three
PreExisting == {{}, {"infomap"}, Range(OraAlgoritmos)}

InitOra ==
    \E c \in OraConfigs, service \in EnrichrServices, cl \in ClusterLists,
       pre \in PreExisting :
        /\ ora = [on |-> TRUE, config |-> c, service |-> service, produced |-> cl,
                  json |-> {[path |-> LookupPath(c, a), communities |-> cl] : a \in pre},
                  csv |-> {}, dirs |-> {}, i |-> 1,
                  resumen_oras |-> <<>>, fila |-> <<>>, comp |-> {}, comp_dirs |-> {},
                  lookups |-> {}]
        /\ heap = (GObj :> EmptyGraph)
        /\ loaded = EmptyGraph
        /\ H = NoObj
        /\ pc = "or_clustering"
        /\ modularity_trace = <<>>
        /\ partitions_trace = <<>>
        /\ best = 0
        /\ result = NoResult
        /\ removed = <<>>
        /\ cr_communities = <<>>
        /\ cr_values = <<>>
        /\ loader = Idle
        /\ topo = Idle
        /\ clust = Idle
        /\ pipe = Idle
        /\ infomap = Idle

OraRest == <<heap, H, modularity_trace, partitions_trace, best, result, loaded, removed,
             cr_communities, cr_values, loader, topo, clust, pipe, infomap>>

\* ejecutar_clustering: the three guardar_json calls
OraClustering ==
    /\ pc = "or_clustering"
    /\ ora' = [ora EXCEPT !.json = @ \cup
                 {[path |-> WrittenPath(ora.config, Roles[k]), communities |-> ora.produced] :
                     k \in 1..Len(Roles)}]
    /\ pc' = "or_ora"
    /\ UNCHANGED OraRest

\* the indices enumerate() gives the clusters: 0, 1, ...
Indices(clusters) == 0..(Len(clusters) - 1)

\* the test of the loop over the clusters in analisis_funcional_clusters
OraSkips(cluster) == Len(cluster) < MinGenesOra

\* one pass of  for algoritmo, json_path in algoritmos.items()
OraAlg ==
    /\ pc = "or_ora"
    /\ LET alg  == OraAlgoritmos[ora.i]
           path == LookupPath(ora.config, alg)
           last == ora.i = Len(OraAlgoritmos)
           seen == [ora EXCEPT !.lookups = @ \cup {[stage |-> "enrichment", alg |-> alg,
                                                     path |-> path]},
                               !.i = IF last THEN 1 ELSE @ + 1]
       IN  IF JsonAt(path) = {}
           THEN ora' = [seen EXCEPT !.resumen_oras = Append(@, [alg |-> alg, n_ora |-> 0])]
           ELSE \E f \in JsonAt(path) :
                  LET clusters == f.communities
                      done == {idx \in Indices(clusters) : ~OraSkips(clusters[idx + 1])}
                  IN  ora' = [seen EXCEPT
                                !.dirs = @ \cup {alg},
                                !.csv = @ \cup
                                   {[path |-> CsvPath(ora.config, alg, idx, DBs[d]),
                                     content |-> ora_base(ora.service, clusters[idx + 1], DBs[d])] :
                                        idx \in done, d \in 1..Len(DBs)},
                                !.resumen_oras =
                                   Append(@, [alg |-> alg, n_ora |-> Cardinality(done)])]
    /\ pc' = IF ora.i = Len(OraAlgoritmos) THEN "or_resumen" ELSE "or_ora"
    /\ UNCHANGED OraRest

\* cargar_clusters(path_json): None when the file does not exist
cargar_clusters(path) ==
    IF JsonAt(path) = {} THEN None
    ELSE Some((CHOOSE f \in JsonAt(path) : TRUE).communities)

\* contar_GO_cluster(cluster_dir): the significant GO terms of one cluster
contar_GO_cluster(c, alg, idx) ==
    LET files == CsvAt(CsvPath(c, alg, idx, "GO"))
    IN  IF files = {} THEN 0
        ELSE LET df == read_csv((CHOOSE f \in files : TRUE).content)
             IN  IF df.padj = <<>> \/ "Adjusted P-value" \notin df.columns THEN 0
                 ELSE Cardinality({k \in 1..Len(df.padj) : df.padj[k] < Alpha})

\* a summary that reads the directory of every cluster
ResumenSkips_none(comunidad) == FALSE

\* the test of the loop over the clusters in media_GO_algoritmo
ResumenSkips(comunidad) == Len(comunidad) < MinGenesResumen

\* media_GO_algoritmo: the indices read, their counts and the mean of the
\* counts as a fraction (0.0 when no cluster is read)
media_GO_algoritmo(c, alg, clusters) ==
    LET read    == SelectSeq([k \in 1..Len(clusters) |-> k - 1],
                             LAMBDA idx : ~ResumenSkips(clusters[idx + 1]))
        conteos == [k \in 1..Len(read) |-> contar_GO_cluster(c, alg, read[k])]
    IN  [read |-> read, conteos |-> conteos,
         media |-> IF conteos = <<>> THEN [num |-> 0, den |-> 1]
                   ELSE [num |-> SumSeq(conteos), den |-> Len(conteos)]]

\* one pass of  for alg in algoritmos  in generar_tabla_clusters_avanzada:
\* the cell "<n> clusters | <media> GO medio" of the algorithm
OraResumen ==
    /\ pc = "or_resumen"
    /\ LET alg      == ResumenAlgoritmos[ora.i]
           path     == LookupPath(ora.config, alg)
           clusters == cargar_clusters(path)
           last     == ora.i = Len(ResumenAlgoritmos)
           m        == media_GO_algoritmo(ora.config, alg, clusters[1])
           cell     == IF clusters = None
                       THEN [alg |-> alg, missing |-> TRUE, n_clusters |-> 0,
                             read |-> <<>>, conteos |-> <<>>,
                             media |-> [num |-> 0, den |-> 1], media_2 |-> 0]
                       ELSE [alg |-> alg, missing |-> FALSE, n_clusters |-> Len(clusters[1]),
                             read |-> m.read, conteos |-> m.conteos,
                             media |-> m.media,
                             media_2 |-> Round(m.media.num, m.media.den, Hundred)]
       IN  ora' = [ora EXCEPT !.fila = Append(@, cell),
                              !.lookups = @ \cup {[stage |-> "summary", alg |-> alg,
                                                   path |-> path]},
                              !.i = IF last THEN 1 ELSE @ + 1]
    /\ pc' = IF ora.i = Len(ResumenAlgoritmos) THEN "or_comp" ELSE "or_resumen"
    /\ UNCHANGED OraRest

\* cargar_resultados_db(cluster_dir, db): None when the file is missing or
\* has no rows
cargar_resultados_db(c, alg, idx, db) ==
    LET files == CsvAt(CsvPath(c, alg, idx, db))
    IN  IF files = {} THEN None
        ELSE LET df == read_csv((CHOOSE f \in files : TRUE).content)
             IN  IF df.padj = <<>> THEN None ELSE Some(df)

\* crear_tabla_comparativa: per database the first row by adjusted p-value
crear_tabla_comparativa(dfs) ==
    [d \in 1..Len(DBs) |->
        IF dfs[d] = None \/ dfs[d][1].padj = <<>>
        THEN [base |-> DBs[d], top_term |-> None, padj |-> None]
        ELSE LET rows == dfs[d][1].padj
                 top  == CHOOSE k \in 1..Len(rows) :
                            /\ \A j \in 1..Len(rows) : rows[k] <= rows[j]
                            /\ \A j \in 1..(k - 1) : rows[k] < rows[j]
             IN  [base |-> DBs[d], top_term |-> Some(top), padj |-> Some(rows[top])]]

\* calcular_convergencia: tabla["top_term"].notna().sum()
calcular_convergencia(tabla) ==
    Cardinality({d \in 1..Len(tabla) : tabla[d].top_term # None})

\* one pass of  for alg in algoritmos  in analisis_funcional_comparativo,
\* over every cluster directory found under funcional/<alg>
OraComp ==
    /\ pc = "or_comp"
    /\ LET alg  == CompAlgoritmos[ora.i]
           last == ora.i = Len(CompAlgoritmos)
           idxs == IF alg \in ora.dirs
                   THEN {f.path.cluster : f \in {x \in ora.csv : x.path.alg = alg}}
                   ELSE {}
           dfs(idx) == [d \in 1..Len(DBs) |-> cargar_resultados_db(ora.config, alg, idx, DBs[d])]
           real == {idx \in idxs : \E d \in 1..Len(DBs) : dfs(idx)[d] # None}
       IN  ora' = [ora EXCEPT
                     !.comp = @ \cup
                        {[alg |-> alg, cluster |-> idx,
                          tabla |-> crear_tabla_comparativa(dfs(idx)),
                          convergencia |->
                             calcular_convergencia(crear_tabla_comparativa(dfs(idx)))] :
                             idx \in real},
                     !.comp_dirs = @ \cup {[alg |-> alg, found |-> alg \in ora.dirs]},
                     !.i = IF last THEN 1 ELSE @ + 1]
    /\ pc' = IF ora.i = Len(CompAlgoritmos) THEN "or_done" ELSE "or_comp"
    /\ UNCHANGED OraRest

NextOra == OraClustering \/ OraAlg \/ OraResumen \/ OraComp

SpecOra == InitOra /\ [][NextOra]_vars

TypeOK ==
    /\ pc \in {"gn_start", "gn_loop", "gn_done", "gn_raised",
               "im_ids", "im_links", "im_collect", "im_done",
               "ec_load", "ec_greedy", "ec_gn", "ec_infomap", "ec_done", "ec_raised",
               "rp_run", "rp_between", "rp_done",
               "or_clustering", "or_ora", "or_resumen", "or_comp", "or_done",
               "cr_values", "cr_done", "cr_raised",
               "ld_start", "ld_loop", "ld_done", "ld_raised",
               "tm_start", "tm_basic", "tm_giant", "tm_comm", "tm_done",
               "pl_generar", "pl_topologia", "pl_clustering", "pl_done", "pl_raised"}
    /\ H \in {NoObj, CopyObj, GObj}
    /\ Len(modularity_trace) = Len(partitions_trace)
    /\ best \in 0..Len(modularity_trace)

\* ------------------------------------------------------------------------
\* Reference notions used by the properties
\* ------------------------------------------------------------------------
Returned == pc = "gn_done"
Left == pc \in {"gn_done", "gn_raised"}

\* the working graph after the first k removals, rebuilt from the record
RECURSIVE RemoveAll(_, _, _)
RemoveAll(g, es, k) ==
    IF k = 0 THEN g
    ELSE remove_edge(RemoveAll(g, es, k - 1), es[k][1], es[k][2])

HAfter(k) == RemoveAll(loaded, removed, k)

IsPartition(cs, N) ==
    /\ \A k \in 1..Len(cs) : cs[k] # {}
    /\ \A k, l \in 1..Len(cs) : k # l => cs[k] \cap cs[l] = {}
    /\ UNION Range(cs) = N

Singletons(g) == [i \in 1..Len(g.nodes) |-> {g.nodes[i]}]

\* Newman's modularity in its pairwise form,
\*   Q = 1/(2m) * sum over i, j in the same community of (A_ij - k_i k_j / 2m),
\* as the fraction  sum (A_ij S - k_i k_j) / S^2  with S = 2m
NewmanQ(g, wt, cs) ==
    LET N == NodeSet(g)
        A(i, j) == IF {i, j} \in EdgeSet(g) THEN wt[{i, j}] ELSE 0
        k == [i \in N |-> SumSet(N, [j \in N |-> A(i, j)])]
        S == SumSet(N, k)
        same == {q \in N \X N : \E c \in Range(cs) : q[1] \in c /\ q[2] \in c}
    IN  [num |-> SumSet(same, [q \in same |-> A(q[1], q[2]) * S - k[q[1]] * k[q[2]]]),
         den |-> S * S]

\* an iteration of the loop has just run
StepTaken == pc = "gn_loop" /\ Len(removed') = Len(removed) + 1

\* ------------------------------------------------------------------------
\* Properties
\* ------------------------------------------------------------------------

\* C1: on a graph with at least one edge girvan_newman_full returns, the
\* returned trace has one entry per edge of G, and the returned best
\* modularity is the maximum of the trace.
C1_TraceLengthAndMax ==
    /\ (Left /\ EdgeSet(loaded) # {}) => Returned
    /\ Returned =>
         /\ Len(result.modularity_trace) = Cardinality(EdgeSet(loaded))
         /\ \A i \in 1..Len(result.modularity_trace) :
              ~RatLess(result.best_mod, result.modularity_trace[i])
         /\ \E i \in 1..Len(result.modularity_trace) :
              result.best_mod = result.modularity_trace[i]

C1_Witness ==
    /\ Returned
    /\ Len(result.modularity_trace) >= 3
    /\ \E i, j \in 1..Len(result.modularity_trace) :
         RatLess(result.modularity_trace[i], result.modularity_trace[j])

\* C2: the returned partition and the returned modularity are both taken at
\* the smallest trace index whose modularity is the maximum of the whole
\* trace.
C2_FirstGlobalPeak ==
    Returned =>
        LET n == Len(modularity_trace)
            b == CHOOSE i \in 1..n :
                   /\ \A j \in 1..n : ~RatLess(modularity_trace[i], modularity_trace[j])
                   /\ \A j \in 1..(i - 1) : RatLess(modularity_trace[j], modularity_trace[i])
        IN  /\ best = b
            /\ result.best_coms = partitions_trace[b]
            /\ result.best_mod = modularity_trace[b]

\* the global peak comes after an entry that its successor does not exceed
C2_Witness ==
    /\ Returned
    /\ \E i \in 1..(best - 1) :
         ~RatLess(modularity_trace[i], modularity_trace[i + 1])

\* C3: the caller's graph G is, in every state of the run and after the
\* return, exactly the graph that was loaded: same nodes, same adjacency,
\* same edge attributes.
C3_InputGraphUntouched == heap[GObj] = loaded

C3_Witness ==
    /\ Returned
    /\ H # NoObj
    /\ EdgeSet(heap[H]) = {}
    /\ Len(removed) >= 2
    /\ Cardinality(EdgeSet(heap[GObj])) = Len(removed)

\* C4: every partition recorded in the trace, and the partition returned,
\* is made of non-empty pairwise disjoint sets whose union is the node set
\* of G.
C4_TracePartitionsNodes ==
    /\ \A i \in 1..Len(partitions_trace) :
         IsPartition(partitions_trace[i], NodeSet(loaded))
    /\ Returned => IsPartition(result.best_coms, NodeSet(loaded))

C4_Witness ==
    /\ Returned
    /\ \E i \in 1..Len(partitions_trace) : Len(partitions_trace[i]) >= 3
    /\ Len(result.best_coms) >= 2

C7_RemovesFirstMaxEdge ==
    [][StepTaken =>
         LET h    == heap[H]
             e    == removed'[Len(removed')]
             keys == Edges(h)
             betw == edge_betweenness_centrality(h)
             b(x) == betw[{x[1], x[2]}]
         IN  /\ \E k \in 1..Len(keys) :
                  /\ keys[k] = e
                  /\ \A j \in 1..Len(keys) : b(keys[j]) <= b(e)
                  /\ \A j \in 1..(k - 1) : b(keys[j]) < b(e)
             /\ EdgeSet(heap'[H]) = EdgeSet(h) \ {{e[1], e[2]}}
             /\ Cardinality(EdgeSet(heap'[H])) = Cardinality(EdgeSet(h)) - 1
             /\ Edges(heap'[H]) = SelectSeq(keys, LAMBDA x : x # e)
             /\ NodeSet(heap'[H]) = NodeSet(h)]_vars

\* the last removal chose among several edges of maximum betweenness, and
\* the one removed was not the last of them
C7_Witness ==
    /\ removed # <<>>
    /\ LET h    == HAfter(Len(removed) - 1)
           e    == removed[Len(removed)]
           keys == Edges(h)
           betw == edge_betweenness_centrality(h)
       IN  \E k, j \in 1..Len(keys) :
               /\ keys[k] = e
               /\ j > k
               /\ betw[{keys[j][1], keys[j][2]}] = betw[{e[1], e[2]}]

\* C8: the function leaves its loop; each iteration lowers the edge count of
\* H by one; the loop is left only when H has no edge, after as many
\* iterations as G has edges.
C8_Terminates ==
    /\ <>Left
    /\ [][StepTaken =>
            number_of_edges(heap'[H]) = number_of_edges(heap[H]) - 1]_vars
    /\ [][(pc = "gn_loop" /\ pc' # "gn_loop") =>
            /\ number_of_edges(heap[H]) = 0
            /\ Len(removed) = Cardinality(EdgeSet(loaded))]_vars

C8_Witness ==
    /\ Left
    /\ Len(removed) = MaxRecords
    /\ number_of_edges(heap[H]) = 0

\* C9 as stated: on a graph without edges girvan_newman_full returns a
\* result instead of raising.
C9_EdgelessReturns ==
    (Left /\ EdgeSet(loaded) = {}) => result.kind = "return"

\* the report has been left, by return or by exception
ReportLeft == pc \in {"cr_done", "cr_raised"}

\* C10 as stated: conductance is 0.0 whenever the smaller of the two volumes
\* is 0, and conductance_report returns a report for every list of
\* communities, the empty list included: it never raises.
C10_ReportAlwaysDefined ==
    /\ \A i \in 1..Len(cr_values) :
         Min2(Volume(loaded, cr_communities[i]),
              Volume(loaded, NodeSet(loaded) \ cr_communities[i])) = 0
           => cr_values[i] = [num |-> 0, den |-> 1]
    /\ ReportLeft => result.kind = "return"

\* volume of a node set, counted as edge ends lying in the set
VolumeRef(g, S) == Cardinality({x \in EdgeSet(g) \X S : x[2] \in x[1]})

\* edges with exactly one endpoint in the set
BoundaryRef(g, S) == {e \in EdgeSet(g) : e \cap S # {} /\ e \ S # {}}

\* C11: every conductance value computed is the number of edges with exactly
\* one endpoint in C divided by the smaller of volume(C) and volume(not-C),
\* and lies in [0, 1], when both volumes are positive; it is exactly 0 when
\* one of the two volumes is 0.
C11_ConductanceRange ==
    \A i \in 1..Len(cr_values) :
        LET C    == cr_communities[i]
            volC == VolumeRef(loaded, C)
            volN == VolumeRef(loaded, NodeSet(loaded) \ C)
            v    == cr_values[i]
        IN  IF volC > 0 /\ volN > 0
            THEN /\ v.den > 0
                 /\ RatEq(v, [num |-> Cardinality(BoundaryRef(loaded, C)),
                              den |-> IF volC <= volN THEN volC ELSE volN])
                 /\ 0 <= v.num
                 /\ v.num <= v.den
            ELSE v = [num |-> 0, den |-> 1]

\* a report holding a value strictly between 0 and 1 has been returned
C11_Witness ==
    /\ pc = "cr_done"
    /\ \E i \in 1..Len(cr_values) :
         /\ 0 < cr_values[i].num
         /\ cr_values[i].num < cr_values[i].den

\* the loader has been left, by return or by exception
LoadLeft == pc \in {"ld_done", "ld_raised"}

\* the lines the loop of the loader reads: all but the header for build_graph
DataLines == IF loader.variant = "build_graph" THEN Tail(loader.lines) ELSE loader.lines

\* the well-formed records among the lines, in order, as rows a,b,s
WellFormedRows(ls) ==
    LET recs == SelectSeq(ls, LAMBDA l : l.kind = "record")
    IN  [i \in 1..Len(recs) |-> <<recs[i].a, recs[i].b, recs[i].s>>]

\* C14 as stated: in both loader variants a file with malformed lines is
\* loaded without failing, and the graph returned is the one built from the
\* well-formed records alone, in their order.
C14_MalformedSkipped ==
    (LoadLeft /\ loader.lines # <<>>) =>
        /\ result.kind = "return"
        /\ result.graph = build_graph(WellFormedRows(DataLines))

\* C15 as stated: the graph the loader returns has no self-loop, one
\* adjacency entry per neighbour, on every edge the attributes of the last
\* record of its pair, and no node outside the endpoints of its edges.
C15_LoaderInvariants ==
    pc = "ld_done" =>
        LET g    == result.graph
            rows == WellFormedRows(DataLines)
        IN  /\ \A e \in EdgeSet(g) : Cardinality(e) = 2
            /\ \A n \in Node : Cardinality(Range(g.adj[n])) = Len(g.adj[n])
            /\ \A e \in EdgeSet(g) :
                 \E k \in 1..Len(rows) :
                     /\ {rows[k][1], rows[k][2]} = e
                     /\ \A j \in (k + 1)..Len(rows) : {rows[j][1], rows[j][2]} # e
                     /\ g.attr[e] = [sim |-> rows[k][3], weight |-> rows[k][3],
                                     dist |-> One - rows[k][3]]
            /\ NodeSet(g) = UNION EdgeSet(g)

\* C12: on a graph without nodes _calcular_metricas_globales returns the
\* fixed record of zeros and nulls, and it does so at once: no graph
\* algorithm is called and no division by n_nodos is evaluated.
C12_EmptyNetworkRecord ==
    Len(loaded.nodes) = 0 =>
        /\ pc \in {"tm_start", "tm_done"}
        /\ topo.calls = <<>>
        /\ pc = "tm_done" =>
             /\ result.kind = "return"
             /\ result.n_nodos = 0
             /\ result.n_aristas = 0
             /\ result.grado_medio = Some(0)
             /\ result.densidad = Some(0)
             /\ result.n_componentes = 0
             /\ result.diametro_gc = None
             /\ result.longitud_camino_media_gc = None
             /\ result.n_comunidades = 0
             /\ result.modularidad_preliminar = None

C12_Witness ==
    /\ pc = "tm_done"
    /\ EdgeSet(loaded) = {}
    /\ topo.n_nodos = 0
    /\ result.kind = "return"

\* size of the largest connected component of the analysed network
LargestSize(g) == MaxOfSet({0} \cup {Cardinality(c) : c \in Range(connected_components(g))})

\* C13 as stated: in both variants the record holds null for diametro_gc and
\* longitud_camino_media_gc when the largest component has fewer than two
\* nodes, and numbers when it has at least two.
C13_TrivialComponentNull ==
    pc = "tm_done" =>
        IF LargestSize(loaded) < 2
        THEN /\ result.diametro_gc = None
             /\ result.longitud_camino_media_gc = None
        ELSE /\ result.diametro_gc # None
             /\ result.longitud_camino_media_gc # None

\* pipeline() has been left, by return or by exception
PipeLeft == pc \in {"pl_done", "pl_raised"}

\* the stages every configuration goes through in both variants
Stages == {"generar_red", "analizar_topologia", "ejecutar_clustering"}

\* C17 as stated: when pipeline() is over and some configurations had a
\* missing or unreadable input, every other configuration has been taken
\* through all its stages.
C17_SiblingsProcessed ==
    (PipeLeft /\ pipe.missing # {}) =>
        \A c \in Range(Configs) \ pipe.missing :
            \A st \in Stages : <<c, st>> \in pipe.log

\* C19: node_to_id numbers the nodes of G 0..n-1 and id_to_node is its
\* inverse; every edge of G is fed to the solver exactly once, with its
\* weight; every (node id, module id) pair of the solver is mapped back to
\* the node, so that two nodes share a returned community exactly when the
\* solver gave them the same module; the value returned with the
\* communities is the solver's codelength.
C19_InfomapMapping ==
    LET n2i == infomap.node_to_id
        i2n == infomap.id_to_node
        n   == Len(loaded.nodes)
        lk  == infomap.links
        a   == infomap.run.assign
    IN  /\ pc \in {"im_links", "im_collect", "im_done"} =>
             /\ DOMAIN n2i = NodeSet(loaded)
             /\ DOMAIN i2n = 0..(n - 1)
             /\ \A x \in NodeSet(loaded) : i2n[n2i[x]] = x
             /\ \A j \in 0..(n - 1) : n2i[i2n[j]] = j
        /\ pc \in {"im_collect", "im_done"} =>
             /\ Len(lk) = Cardinality(EdgeSet(loaded))
             /\ \A e \in EdgeSet(loaded) :
                  \E k \in 1..Len(lk) :
                      /\ {i2n[lk[k][1]], i2n[lk[k][2]]} = e
                      /\ lk[k][3] = loaded.attr[e].weight
                      /\ \A j \in 1..Len(lk) :
                           {i2n[lk[j][1]], i2n[lk[j][2]]} = e => j = k
        /\ pc = "im_done" =>
             /\ UNION Range(result.communities) = {i2n[j] : j \in DOMAIN a}
             /\ \A u, v \in DOMAIN a :
                  (\E c \in Range(result.communities) : i2n[u] \in c /\ i2n[v] \in c)
                      <=> a[u] = a[v]
             /\ result.codelength = infomap.run.codelength

\* a run on a graph whose node order is not the numeric one, with a heavy
\* edge, that returned several communities, one of them with several nodes
C19_Witness ==
    /\ pc = "im_done"
    /\ \E x \in NodeSet(loaded) : infomap.node_to_id[x] # x - 1
    /\ \E k \in 1..Len(infomap.links) : infomap.links[k][3] > 1
    /\ Len(result.communities) >= 2
    /\ \E c \in Range(result.communities) : Cardinality(c) >= 2
    /\ result.codelength > 0

Records ==
    IF clust.on
    THEN {clust.written[k] : k \in {j \in 1..Len(clust.written) :
                                       clust.written[j].data # [format |-> "png"]}}
    ELSE {}

QualityFields == {"modularity", "best_modularity", "codelength"}

IsSortedList(l) == \A i, j \in 1..Len(l) : i < j => l[i] < l[j]

\* C16 as stated: every result record written by any of the three algorithms
\* has an `algorithm` field, exactly one quality field, and the partition
\* under `communities` as a list of sorted lists of node identifiers.
C16_RecordStructure ==
    \A r \in Records :
        /\ "algorithm" \in DOMAIN r.data
        /\ Cardinality(QualityFields \cap DOMAIN r.data) = 1
        /\ "communities" \in DOMAIN r.data
        /\ \A k \in 1..Len(r.data.communities) : IsSortedList(r.data.communities[k])
        /\ IsPartition([k \in 1..Len(r.data.communities) |-> Range(r.data.communities[k])],
                       NodeSet(G))

\* C18 as stated: when one of the three algorithms fails, the result records
\* of the other two are still written, whichever one fails.
C18_FailureConfined ==
    (clust.on /\ pc = "ec_raised") =>
        \A a \in Algos \ {result.branch} : \E r \in Records : r.branch = a

\* the runs of the repeated algorithm that have returned
RunsOf(alg) ==
    IF clust.on /\ "runs" \in DOMAIN clust /\ clust.alg = alg THEN clust.runs ELSE <<>>

\* C21 as stated: infomap_partition hands the solver an explicit fixed seed,
\* and two runs on the same graph return the same communities and the same
\* codelength.
C21_InfomapSeeded ==
    /\ \A k \in 1..Len(RunsOf("infomap")) : "--seed" \in RunsOf("infomap")[k].args
    /\ Len(RunsOf("infomap")) = 2 =>
          /\ RunsOf("infomap")[1].communities = RunsOf("infomap")[2].communities
          /\ RunsOf("infomap")[1].codelength = RunsOf("infomap")[2].codelength

C23_TwoTriangles ==
    /\ Len(connected_components(G)) = 2
    /\ best # 0 =>
          /\ Len(partitions_trace[best]) = 2
          /\ Range(partitions_trace[best]) = {TriangleA, TriangleB}
    /\ pc = "cr_done" =>
          /\ Range(cr_communities) = {TriangleA, TriangleB}
          /\ Len(result.per_community) = 2
          /\ \A k \in 1..2 : result.per_community[k].num = 0

\* the report was returned for two triangles whose edges carry different
\* scores, after a Girvan-Newman run that removed all six edges
C23_Witness ==
    /\ pc = "cr_done"
    /\ Len(removed) = Cardinality(TrianglePairs)
    /\ \E e, f \in EdgeSet(G) : G.attr[e].weight # G.attr[f].weight
    /\ NodeSet(G) = TriangleA \cup TriangleB

\* position of a mode in MODOS, of a score in SCORES (0 for the tables'
\* pseudo-score), of a stage in a configuration
PosIn(seq, x) == CHOOSE i \in 1..Len(seq) : seq[i] = x

StageNames ==
    <<"generar_red", "analizar_topologia", "greedy", "girvan_newman", "infomap",
      "analisis_funcional_clusters">>

\* stage entry a comes before stage entry b: the tables after every
\* configuration, else by mode, then score, then stage
IsTabla(a) == a[2] = "generar_tabla_clusters_avanzada"

ComesBefore(a, b) ==
    IF IsTabla(a) \/ IsTabla(b)
    THEN \/ ~IsTabla(a) /\ IsTabla(b)
         \/ IsTabla(a) /\ IsTabla(b) /\ PosIn(MODOS, a[1][1]) < PosIn(MODOS, b[1][1])
    ELSE \/ PosIn(MODOS, a[1][1]) < PosIn(MODOS, b[1][1])
         \/ /\ a[1][1] = b[1][1]
            /\ PosIn(SCORES, a[1][2]) < PosIn(SCORES, b[1][2])
         \/ /\ a[1] = b[1]
            /\ PosIn(StageNames, a[2]) < PosIn(StageNames, b[2])

\* the stage entries the variant has: pipeline.py stops at the clustering
AllEntries ==
    LET stages == IF pipe.variant = "scripts/pipeline.py"
                  THEN Range(StageNames)
                  ELSE Range(StageNames) \ {"analisis_funcional_clusters"}
    IN  {<<<<m, sc>>, st>> : m \in Range(MODOS), sc \in Range(SCORES), st \in stages}
            \cup (IF pipe.variant = "scripts/pipeline.py"
                  THEN {<<<<m, 0>>, "generar_tabla_clusters_avanzada">> : m \in Range(MODOS)}
                  ELSE {})

C27_ClusterCountsStored ==
    (pipe.on /\ pipe.variant = "scripts/pipeline.py") =>
        \A c \in Range(Configs) :
            <<c, "ejecutar_clustering">> \in pipe.log =>
                /\ pipe.tabla_clusters[c].kind = "dict"
                /\ pipe.tabla_clusters[c].keys = {"fast_greedy", "edge_betweenness", "infomap"}
                /\ <<c, "analisis_funcional_clusters">> \in pipe.log

\* the least cluster size the module's description gives for the enrichment
MinGenesDoc == 5

\* the cluster directories the enrichment stage wrote under an algorithm
ClusterDirs(alg) == {f.path.cluster : f \in {x \in ora.csv : x.path.alg = alg}}

\* C25 as stated: for every algorithm whose result file was found, the
\* clusters given an enrichment directory are exactly those with at least 5
\* genes, and the number of ORAs returned for the algorithm counts exactly
\* those.
C25_OnlyLargeClusters ==
    ora.on =>
        \A k \in 1..Len(ora.resumen_oras) :
            LET e  == ora.resumen_oras[k]
                cl == cargar_clusters(LookupPath(ora.config, e.alg))
            IN  cl # None =>
                  LET large == {idx \in Indices(cl[1]) : Len(cl[1][idx + 1]) >= MinGenesDoc}
                  IN  /\ ClusterDirs(e.alg) = large
                      /\ e.n_ora = Cardinality(large)

\* the databases with at least one significant term for a cluster
SignificantDBs(alg, idx) ==
    {d \in 1..Len(DBs) :
        \E f \in CsvAt(CsvPath(ora.config, alg, idx, DBs[d])) :
            \E k \in 1..Len(f.content.padj) : f.content.padj[k] < Alpha}

\* C26 as stated: the convergence written for a cluster is the number of
\* databases among GO, KEGG and Reactome with at least one term of adjusted
\* p-value below 0.05, an integer from 0 to 3.
C26_Convergence ==
    ora.on =>
        \A o \in ora.comp :
            /\ o.convergencia \in 0..3
            /\ o.convergencia = Cardinality(SignificantDBs(o.alg, o.cluster))

\* C28 as stated: the result file that the enrichment and the summary stage
\* look up for an algorithm is the one the clustering wrote for it, the
\* comparison stage looks under the directory name the enrichment stage
\* uses, and no algorithm is reported as missing once the clustering has
\* written its records.
C28_SameFiles ==
    ora.on =>
        /\ \A l \in ora.lookups : l.path = WrittenPath(ora.config, RoleOf(l.alg))
        /\ \A d \in ora.comp_dirs : \E k \in 1..Len(OraAlgoritmos) : OraAlgoritmos[k] = d.alg
        /\ \A k \in 1..Len(ora.fila) : ~ora.fila[k].missing

\* the number of significant GO terms written for a cluster
SignificantGO(alg, idx) ==
    Cardinality({k \in 1..Len((CHOOSE f \in CsvAt(CsvPath(ora.config, alg, idx, "GO")) :
                                  TRUE).content.padj) :
                    (CHOOSE f \in CsvAt(CsvPath(ora.config, alg, idx, "GO")) :
                        TRUE).content.padj[k] < Alpha})

C30_TraceOnlyRefines ==
    \A i \in 2..Len(partitions_trace) :
        LET before == partitions_trace[i - 1]
            after  == partitions_trace[i]
        IN  /\ \A c \in Range(after) : \E d \in Range(before) : c \subseteq d
            /\ Len(after) >= Len(before)
            /\ Len(after) <= Len(before) + 1

\* a finished run whose trace has a removal that split a community and a
\* removal that split none
C30_Witness ==
    /\ pc = "gn_done"
    /\ \E i \in 2..Len(partitions_trace) :
          /\ Len(partitions_trace[i]) = Len(partitions_trace[i - 1]) + 1
          /\ Range(partitions_trace[i]) # Range(partitions_trace[i - 1])
    /\ \E i \in 2..Len(partitions_trace) :
          partitions_trace[i] = partitions_trace[i - 1]

=============================================================================
